---------------------------- MODULE Spec2Model ----------------------------
(***************************************************************************)
(* State-machine models of the travel-offers scrapers.                     *)
(*                                                                         *)
(* The repository is a set of independent scripts, so the module holds one *)
(* state machine per script, each with its own specification:              *)
(*                                                                         *)
(*   SpecCrawl      AventuraScraper.discover_listing_pages                 *)
(*   SpecCrawlFair  the same under weak fairness of the crawl loop         *)
(*   SpecEnrich     BohemiaScraper.enrich_offers_with_dates                *)
(*   SpecAventura   AventuraScraper.scrape_offers                          *)
(*   SpecSinglePage LuxtravelScraper / ProfitoursScraper.scrape_offers     *)
(*   SpecPlaywright BohemiaScraper.scrape and TeztourScraper.scrape        *)
(*   SpecDedupe     duplicate removal of the Angel Travel and Dari Tour    *)
(*                  scrapers                                               *)
(*   SpecLifecycle  run_scraper and the session of PlaywrightScraperBase   *)
(*   SpecProcess    process_offers.process_files and create_db             *)
(*   SpecSave       save_results of the eight scrapers                     *)
(*   SpecFixer      fix_aratur_issues.main and fix_final_issues.main       *)
(*   SpecDateFix    fix_final_issues.fix_date_inconsistencies and          *)
(*                  analyze_aratur_data.analyze_date_consistency           *)
(*   SpecDestFix    fix_aratur_issues.fix_invalid_destinations and         *)
(*                  analyze_aratur_data.analyze_offer_destinations         *)
(*   SpecRange      date-range building of the scrapers and the fixer      *)
(*                                                                         *)
(* A specification leaves the variables of the other machines at their     *)
(* idle values.                                                            *)
(***************************************************************************)
EXTENDS Integers, Sequences, FiniteSets, TLC

(***************************************************************************)
(* General helpers                                                         *)
(***************************************************************************)
Range(s) == {s[i] : i \in 1..Len(s)}

Min(a, b) == IF a <= b THEN a ELSE b

Max(a, b) == IF a >= b THEN a ELSE b

\* All sequences over S of length at most n
SeqsUpTo(S, n) == UNION {[1..k -> S] : k \in 0..n}

\* s[:n] of Python for n >= 0
Take(s, n) == SubSeq(s, 1, Min(n, Len(s)))

VARIABLES
    \* ---- AventuraScraper.discover_listing_pages ----
    cr_pc,                      \* "loop" | "done"
    max_pages,                  \* the max_pages argument
    visited,                    \* set of URLs
    queue,                      \* list of URLs
    listings,                   \* list of URLs
    discovered_listing_pages,   \* self.discovered_listing_pages (the result)
    fetchCount,                 \* history: number of fetch_page calls of the crawl
    fetchedUrls,                \* history: the URLs handed to fetch_page
    \* ---- BohemiaScraper.enrich_offers_with_dates ----
    en_pc,                      \* "for" | "http_wait" | "pw_wait" | "done"
    total,                      \* len(offers); offers are numbered 1..total
    batch_size,                 \* self.batch_size
    pw_concurrency,             \* self.pw_concurrency
    batch_i,                    \* the loop variable i of range(0, total, batch_size)
    batch,                      \* offers[i:i+batch_size], as offer numbers
    http_state,                 \* per offer: its HTTP task "idle" | "pending" | "running" | "done"
    http_results,               \* per offer: what its HTTP task returned
    need_fallback_idxs,         \* positions in batch (from 1) that go to the fallback
    pw_state,                   \* per offer: its fallback task "idle" | "pending" | "page" | "page2" | "done"
    pw_results,                 \* per offer: what its fallback task returned
    pw_semaphore,               \* free permits of self._pw_semaphore
    open_pages,                 \* fallback pages opened (context.new_page) and not closed
    dates,                      \* per offer: offer.dates, OriginalDates for its value before enrichment
    enriched_offers,            \* the list enrich_offers_with_dates returned, <<>> before
    batches,                    \* history: the batches formed so far
    \* ---- scrape_offers of the aiohttp scrapers (Aventura, Luxtravel, Profitours) ----
    sc_pc,                      \* "start" | "pages" | "cards" | "done"
    scraper,                    \* "aventura" | "luxtravel" | "profitours"
    limit,                      \* self.limit; 0 stands for None
    offers,                     \* self.offers; an offer is named by its link
    seen_urls,                  \* self.seen_urls
    n_listings,                 \* Aventura: len(listings) of scrape_offers
    page_idx,                   \* Aventura: listing pages taken from the for loop so far
    offer_cards,                \* Luxtravel, Profitours: the cards of the fetched page
    card_idx,                   \* Luxtravel, Profitours: cards taken from the for loop so far
    page_offers,                \* Luxtravel, Profitours: the local list "offers"
    \* ---- scrape of the Playwright scrapers (Bohemia, Teztour) ----
    pl_pc,                      \* "start" | "loop" | "final" | "done"
    pl_scraper,                 \* "bohemia" | "teztour"
    pl_limit,                   \* the limit argument; 0 stands for None
    no_enrich,                  \* self.no_enrich
    n_destinations,             \* len(destinations)
    dest_i,                     \* destinations taken from the for loop so far
    all_offers,                 \* all_offers; an offer is <<destination, position>>
    returned,                   \* the list scrape returns
    scrape_log,                 \* history: one record per scrape_destination call
    \* ---- duplicate removal (Angel Travel, Dari Tour) ----
    dd_pc,                      \* "loop" | "done"
    dd_scraper,                 \* "angeltravel" | "daritour"
    dd_offers,                  \* the list the loop runs over (offers / all_offers)
    dd_i,                       \* offers taken from the for loop so far
    seen,                       \* seen
    unique_offers,              \* unique_offers
    \* ---- run_scraper and the context manager of PlaywrightScraperBase ----
    lc_pc,                      \* "args" | "aenter" | "scrape" | "save" | "aexit" | "returned" | "raised"
    scraper_class,              \* the class run_scraper was given
    args_limit,                 \* args.limit
    lc_limit,                   \* limit of run_scraper; 0 stands for None
    handles,                    \* self.page, self.context, self.browser, self.playwright: "none" | "open" | "closed"
    lc_i,                       \* statements of __aenter__ or __aexit__ executed so far
    entered,                    \* __aenter__ returned: the session is open
    body_raised,                \* the body of the async with raised
    n_scraped,                  \* len(offers) of run_scraper
    closed,                     \* history: the resources closed so far, in order
    \* ---- process_offers.py and create_db.py ----
    pf_pc,                      \* "loop" | "offers" | "returned" | "insert" | "db_done" | "db_raised"
    file_paths,                 \* file_paths of process_files
    disk,                       \* per input file: its status and, when it is a JSON list, its offers
    file_i,                     \* files taken from "for file_path in file_paths" so far
    offer_i,                    \* offers taken from "for offer in data" so far
    unified_offers,             \* unified_offers
    next_id,                    \* the next value uuid.uuid4() gives
    unified_json,               \* the content of unified_offers.json
    table,                      \* the rows of table offers in travel_offers.db
    db_i,                       \* offers taken from the insert loop of create_db so far
    \* ---- save_results of the scrapers ----
    sv_pc,                      \* "scraped" | "saved"
    sv_agency,                  \* the scraper whose save_results runs
    scraped_offers,             \* the offers the scraper holds (self.offers, self.scraped_offers or the list scrape returned)
    output_json,                \* the list written to the output file
    \* ---- fix_aratur_issues.main and fix_final_issues.main ----
    fx_script,                  \* "fix_aratur_issues" | "fix_final_issues"
    fx_step,                    \* position of main in MainSteps; past the end once main returned
    aratur_json,                \* the file aratur.json: whether it exists and the list it holds
    backup_json,                \* the backup file of the script, likewise
    fx_offers,                  \* the list offers of main, modified in place by the fix functions
    fx_loaded,                  \* history: the list as load_offers returned it
    fx_i,                       \* index of the offer fix_offers_with_fresh_data looks at next
    fx_log,                     \* history: what fix_offers_with_fresh_data did with each offer
    fx_writes,                  \* history: the files written, in order
    \* ---- fix_date_inconsistencies and analyze_date_consistency ----
    df_pc,                      \* "loaded" | "fixed" | "analyzed" | "fixed_again"
    df_offers,                  \* the offers as given to fix_date_inconsistencies
    df_fixed,                   \* the offers after fix_date_inconsistencies
    df_fixed_count,             \* the number it returned
    df_issues,                  \* the lists analyze_date_consistency returned for the fixed offers
    df_again,                   \* the offers after a second fix_date_inconsistencies
    df_again_count,             \* the number the second call returned
    \* ---- fix_invalid_destinations and analyze_offer_destinations ----
    ds_pc,                      \* "loaded" | "analyzed" | "fixed"
    ds_offers,                  \* the offers as loaded
    ds_issues,                  \* the lists analyze_offer_destinations returned for them
    ds_fixed,                   \* the offers after fix_invalid_destinations
    ds_fixed_count,             \* the number it returned
    \* ---- date-range building of the scrapers and of fix_aratur_issues ----
    rg_pc,                      \* "found" | "built"
    rg_builder,                 \* the code that builds the range
    rg_found,                   \* the date texts the regular expression found, in text order
    rg_emitted,                 \* the dates string built from them
    rg_raised                   \* whether the builder raised instead

crawlVars == <<cr_pc, max_pages, visited, queue, listings,
               discovered_listing_pages, fetchCount, fetchedUrls>>

enrichVars == <<en_pc, total, batch_size, pw_concurrency, batch_i, batch, http_state,
                http_results, need_fallback_idxs, pw_state, pw_results, pw_semaphore,
                open_pages, dates, batches, enriched_offers>>

scrapeVars == <<sc_pc, scraper, limit, offers, seen_urls, n_listings, page_idx,
                offer_cards, card_idx, page_offers>>

playwrightVars == <<pl_pc, pl_scraper, pl_limit, no_enrich, n_destinations, dest_i,
                    all_offers, returned, scrape_log>>

dedupeVars == <<dd_pc, dd_scraper, dd_offers, dd_i, seen, unique_offers>>

lifecycleVars == <<lc_pc, scraper_class, args_limit, lc_limit, handles,
    lc_i, entered, body_raised, n_scraped, closed>>

processVars == <<pf_pc, file_paths, disk, file_i, offer_i,
    unified_offers, next_id, unified_json, table, db_i>>

saveVars == <<sv_pc, sv_agency, scraped_offers, output_json>>

fixerVars == <<fx_script, fx_step, aratur_json, backup_json,
    fx_offers, fx_loaded, fx_i, fx_log, fx_writes>>

datefixVars == <<df_pc, df_offers, df_fixed,
    df_fixed_count, df_issues, df_again, df_again_count>>

destfixVars == <<ds_pc, ds_offers, ds_issues, ds_fixed, ds_fixed_count>>

rangeVars == <<rg_pc, rg_builder, rg_found, rg_emitted, rg_raised>>

vars == <<crawlVars, enrichVars, scrapeVars, playwrightVars, dedupeVars, lifecycleVars,
    processVars, saveVars, fixerVars, datefixVars, destfixVars, rangeVars>>

(***************************************************************************)
(* The idle values a machine's variables keep while another machine runs.  *)
(***************************************************************************)
CrawlIdle ==
    /\ cr_pc = "off"
    /\ max_pages = 0
    /\ visited = {}
    /\ queue = <<>>
    /\ listings = <<>>
    /\ discovered_listing_pages = <<>>
    /\ fetchCount = 0
    /\ fetchedUrls = {}

EnrichIdle ==
    /\ en_pc = "off"
    /\ total = 0
    /\ batch_size = 0
    /\ pw_concurrency = 0
    /\ batch_i = 0
    /\ batch = <<>>
    /\ http_state = <<>>
    /\ http_results = <<>>
    /\ need_fallback_idxs = <<>>
    /\ pw_state = <<>>
    /\ pw_results = <<>>
    /\ pw_semaphore = 0
    /\ open_pages = 0
    /\ dates = <<>>
    /\ batches = <<>>
    /\ enriched_offers = <<>>

ScrapeIdle ==
    /\ sc_pc = "off"
    /\ scraper = "none"
    /\ limit = 0
    /\ offers = <<>>
    /\ seen_urls = {}
    /\ n_listings = 0
    /\ page_idx = 0
    /\ offer_cards = <<>>
    /\ card_idx = 0
    /\ page_offers = <<>>

PlaywrightIdle ==
    /\ pl_pc = "off"
    /\ pl_scraper = "none"
    /\ pl_limit = 0
    /\ no_enrich = FALSE
    /\ n_destinations = 0
    /\ dest_i = 0
    /\ all_offers = <<>>
    /\ returned = <<>>
    /\ scrape_log = <<>>

DedupeIdle ==
    /\ dd_pc = "off"
    /\ dd_scraper = "none"
    /\ dd_offers = <<>>
    /\ dd_i = 0
    /\ seen = {}
    /\ unique_offers = <<>>

LifecycleIdle ==
    /\ lc_pc = "off"
    /\ scraper_class = "none"
    /\ args_limit = 0
    /\ lc_limit = 0
    /\ handles = <<>>
    /\ lc_i = 0
    /\ entered = FALSE
    /\ body_raised = FALSE
    /\ n_scraped = 0
    /\ closed = <<>>

ProcessIdle ==
    /\ pf_pc = "off"
    /\ file_paths = <<>>
    /\ disk = <<>>
    /\ file_i = 0
    /\ offer_i = 0
    /\ unified_offers = <<>>
    /\ next_id = 0
    /\ unified_json = <<>>
    /\ table = {}
    /\ db_i = 0

SaveIdle ==
    /\ sv_pc = "off"
    /\ sv_agency = "none"
    /\ scraped_offers = <<>>
    /\ output_json = <<>>

FixerIdle ==
    /\ fx_script = "none"
    /\ fx_step = 0
    /\ aratur_json = [exists |-> FALSE, offers |-> <<>>]
    /\ backup_json = [exists |-> FALSE, offers |-> <<>>]
    /\ fx_offers = <<>>
    /\ fx_loaded = <<>>
    /\ fx_i = 0
    /\ fx_log = <<>>
    /\ fx_writes = <<>>

DatefixIdle ==
    /\ df_pc = "off"
    /\ df_offers = <<>>
    /\ df_fixed = <<>>
    /\ df_fixed_count = 0
    /\ df_issues = [single_date_multi_day |-> {}, inconsistent_ranges |-> {}, valid_date_consistency |-> {}]
    /\ df_again = <<>>
    /\ df_again_count = 0

DestfixIdle ==
    /\ ds_pc = "off"
    /\ ds_offers = <<>>
    /\ ds_issues = [empty_destinations |-> {}, invalid_destinations |-> {}, valid_destinations |-> {}]
    /\ ds_fixed = <<>>
    /\ ds_fixed_count = 0

RangeIdle ==
    /\ rg_pc = "off"
    /\ rg_builder = "none"
    /\ rg_found = <<>>
    /\ rg_emitted = ""
    /\ rg_raised = FALSE

\* The variables each machine leaves alone.
crawlOthers == <<enrichVars, scrapeVars, playwrightVars, dedupeVars, lifecycleVars,
    processVars, saveVars, fixerVars, datefixVars, destfixVars, rangeVars>>

enrichOthers == <<crawlVars, scrapeVars, playwrightVars, dedupeVars, lifecycleVars,
    processVars, saveVars, fixerVars, datefixVars, destfixVars, rangeVars>>

scrapeOthers == <<crawlVars, enrichVars, playwrightVars, dedupeVars, lifecycleVars,
    processVars, saveVars, fixerVars, datefixVars, destfixVars, rangeVars>>

playwrightOthers == <<crawlVars, enrichVars, scrapeVars, dedupeVars, lifecycleVars,
    processVars, saveVars, fixerVars, datefixVars, destfixVars, rangeVars>>

dedupeOthers == <<crawlVars, enrichVars, scrapeVars, playwrightVars, lifecycleVars,
    processVars, saveVars, fixerVars, datefixVars, destfixVars, rangeVars>>

lifecycleOthers == <<crawlVars, enrichVars, scrapeVars, playwrightVars, dedupeVars,
    processVars, saveVars, fixerVars, datefixVars, destfixVars, rangeVars>>

processOthers == <<crawlVars, enrichVars, scrapeVars, playwrightVars, dedupeVars,
    lifecycleVars, saveVars, fixerVars, datefixVars, destfixVars, rangeVars>>

saveOthers == <<crawlVars, enrichVars, scrapeVars, playwrightVars, dedupeVars,
    lifecycleVars, processVars, fixerVars, datefixVars, destfixVars, rangeVars>>

fixerOthers == <<crawlVars, enrichVars, scrapeVars, playwrightVars, dedupeVars,
    lifecycleVars, processVars, saveVars, datefixVars, destfixVars, rangeVars>>

datefixOthers == <<crawlVars, enrichVars, scrapeVars, playwrightVars, dedupeVars,
    lifecycleVars, processVars, saveVars, fixerVars, destfixVars, rangeVars>>

destfixOthers == <<crawlVars, enrichVars, scrapeVars, playwrightVars, dedupeVars,
    lifecycleVars, processVars, saveVars, fixerVars, datefixVars, rangeVars>>

rangeOthers == <<crawlVars, enrichVars, scrapeVars, playwrightVars, dedupeVars,
    lifecycleVars, processVars, saveVars, fixerVars, datefixVars, destfixVars>>

(***************************************************************************)
(* AventuraScraper.discover_listing_pages  (src/aventura_scraper.py)       *)
(*                                                                         *)
(* URLs are numbered 0..NumUrls-1.  What the code reads off a URL string   *)
(* is its class:                                                           *)
(*   0           the homepage, start_url = OFFERS_URL                      *)
(*   1           an offer-detail URL (/pochivka/..., /ekskurzia/...)       *)
(*   2           an internal URL outside the allowed listing prefixes      *)
(*   3 ..        internal URLs under an allowed listing prefix             *)
(* An anchor's href may also be negative: a link to another host, a        *)
(* mailto: or an empty href, which _normalize_url maps to None.            *)
(***************************************************************************)

\* Number of URLs of the site; more than QueueCap of them are crawlable.
NumUrls == 306

\* Number of URLs whose pages are enumerated in full (any anchors, any
\* offer-link count); the others are plain category pages.
SmallUrls == 5

\* Largest max_pages argument tried.
MaxMaxPages == 2

\* Longest anchor list of a fully enumerated page.
MaxAnchors == 2

\* "len(visited) + len(queue) < 300"
QueueCap == 300

\* "offer_count >= 5"
ListingThreshold == 5

Urls == 0..(NumUrls - 1)

start_url == 0

\* the None of _normalize_url
NoUrl == -1

\* _normalize_url: None for an anchor that is not an internal link, else the
\* canonical URL.
NormalizeUrl(href) == IF href < 0 THEN NoUrl ELSE href

\* _is_offer_detail_url
IsOfferDetailUrl(u) == u = 1

\* the allowed_listing_prefixes test on the URL's path
IsAllowedListingPath(u) == u # 2

\* A fetched page: the hrefs of its anchors in document order, and the number
\* of its anchors that normalise to an offer-detail URL (_count_offer_links).
AllAnchors == [i \in 1..NumUrls |-> i - 1]

SmallAnchorLists == SeqsUpTo((0 - 1)..(SmallUrls - 1), MaxAnchors)

OfferLinkCounts == {0, ListingThreshold - 1, ListingThreshold}

\* What fetch_page(url) may give: None (status # 200, timeout, error), here a
\* record with ok = FALSE, or a page.
FetchResults(url) ==
    {[ok |-> FALSE, anchors |-> <<>>, offer_count |-> 0]} \cup
    IF url < SmallUrls
    THEN [ok : {TRUE},
          anchors : SmallAnchorLists \cup {AllAnchors},
          offer_count : OfferLinkCounts]
    ELSE [ok : {TRUE}, anchors : {<<>>, <<start_url, url>>}, offer_count : {0}]

\* ShouldEnqueue without the "norm not in queue" test
ShouldEnqueue_NoQueueTest(norm, vis, q) ==
    /\ norm # NoUrl
    /\ ~IsOfferDetailUrl(norm)
    /\ IsAllowedListingPath(norm)
    /\ norm \notin vis
    /\ Cardinality(vis) + Len(q) < QueueCap

\* ShouldEnqueue without the "len(visited) + len(queue) < 300" test
ShouldEnqueue_NoCap(norm, vis, q) ==
    /\ norm # NoUrl
    /\ ~IsOfferDetailUrl(norm)
    /\ IsAllowedListingPath(norm)
    /\ norm \notin vis
    /\ norm \notin Range(q)

\* line 200 with the two "continue" filters before it
ShouldEnqueue(norm, vis, q) ==
    /\ norm # NoUrl
    /\ ~IsOfferDetailUrl(norm)
    /\ IsAllowedListingPath(norm)
    /\ norm \notin vis
    /\ norm \notin Range(q)
    /\ Cardinality(vis) + Len(q) < QueueCap

\* One pass of the body of the "for a in soup.find_all('a', href=True)" loop.
EnqueueOne(href, vis, q) ==
    LET norm == NormalizeUrl(href)
    IN  IF ShouldEnqueue(norm, vis, q) THEN Append(q, norm) ELSE q

\* The loop over anchors[lo..hi], in document order.  The range is halved
\* and the queue after the left half is computed (the test on its length
\* only makes the evaluator compute it) before the right half starts, so
\* that the evaluation depth stays logarithmic in the number of anchors; the
\* anchors are still taken strictly left to right.
RECURSIVE EnqueueLinks(_, _, _, _, _)
EnqueueLinks(anchors, lo, hi, vis, q) ==
    IF lo > hi THEN q
    ELSE IF lo = hi THEN EnqueueOne(anchors[lo], vis, q)
    ELSE LET mid  == (lo + hi) \div 2
             left == EnqueueLinks(anchors, lo, mid, vis, q)
         IN  IF Len(left) >= 0
             THEN EnqueueLinks(anchors, mid + 1, hi, vis, left)
             ELSE left

\* "De-duplicate while preserving order"
RECURSIVE DedupeOrdered(_, _, _)
DedupeOrdered(us, seenUrls, ordered) ==
    IF us = <<>> THEN ordered
    ELSE IF Head(us) \in seenUrls
         THEN DedupeOrdered(Tail(us), seenUrls, ordered)
         ELSE DedupeOrdered(Tail(us), seenUrls \cup {Head(us)}, Append(ordered, Head(us)))

\* WithHomepage putting the homepage last (listings.append) instead of first
WithHomepage_Appended(ls) == IF start_url \in Range(ls) THEN ls ELSE Append(ls, start_url)

\* "Always include homepage if not already"
WithHomepage(ls) == IF start_url \in Range(ls) THEN ls ELSE <<start_url>> \o ls

\* lines 203-217
FinalListings(ls, mp) == Take(DedupeOrdered(WithHomepage(ls), {}, <<>>), mp)

\* the while condition
CrawlContinues == queue # <<>> /\ Len(listings) < max_pages

CrawlInit ==
    /\ cr_pc = "loop"
    /\ max_pages \in 1..MaxMaxPages
    /\ visited = {}
    /\ queue = <<start_url>>
    /\ listings = <<>>
    /\ discovered_listing_pages = <<>>
    /\ fetchCount = 0
    /\ fetchedUrls = {}
    /\ EnrichIdle /\ ScrapeIdle /\ PlaywrightIdle /\ DedupeIdle
       /\ LifecycleIdle
       /\ ProcessIdle
       /\ SaveIdle
       /\ FixerIdle
       /\ DatefixIdle
       /\ DestfixIdle
       /\ RangeIdle

\* One iteration of the while loop.
CrawlStep ==
    /\ cr_pc = "loop"
    /\ CrawlContinues
    /\ LET url == Head(queue)
           q1  == Tail(queue)
       IN  IF url \in visited
           THEN /\ queue' = q1
                /\ UNCHANGED <<visited, listings, fetchCount, fetchedUrls>>
           ELSE /\ visited' = visited \cup {url}
                /\ fetchCount' = fetchCount + 1
                /\ fetchedUrls' = fetchedUrls \cup {url}
                /\ \E html \in FetchResults(url) :
                     IF ~html.ok
                     THEN /\ queue' = q1
                          /\ UNCHANGED listings
                     ELSE /\ listings' =
                               IF html.offer_count >= ListingThreshold /\ ~IsOfferDetailUrl(url)
                               THEN Append(listings, url)
                               ELSE listings
                          /\ queue' = EnqueueLinks(html.anchors, 1, Len(html.anchors), visited', q1)
    /\ UNCHANGED <<cr_pc, max_pages, discovered_listing_pages>>
    /\ UNCHANGED crawlOthers

\* Loop exit and lines 203-217.
CrawlFinish ==
    /\ cr_pc = "loop"
    /\ ~CrawlContinues
    /\ discovered_listing_pages' = FinalListings(listings, max_pages)
    /\ cr_pc' = "done"
    /\ UNCHANGED <<max_pages, visited, queue, listings, fetchCount, fetchedUrls>>
    /\ UNCHANGED crawlOthers

CrawlNext == CrawlStep \/ CrawlFinish

SpecCrawl == CrawlInit /\ [][CrawlNext]_vars

SpecCrawlFair == SpecCrawl /\ WF_vars(CrawlNext)

(***************************************************************************)
(* BohemiaScraper.enrich_offers_with_dates  (src/bohemia_scraper_v2.py)    *)
(*                                                                         *)
(* The coroutine and the tasks asyncio.gather runs for it.  Offers are     *)
(* numbered 1..total; an offer's link is its number.  A date is a number   *)
(* 1..NumDates in chronological order, 0 is None.  What a task returns is  *)
(* a record: kind "tuple" with first and last, or kind "exc" for the       *)
(* exception object gather(return_exceptions=True) puts in the list.       *)
(***************************************************************************)

\* Largest number of offers handed to enrich_offers_with_dates.
MaxOffers == 3

\* Largest --batch-size tried.
MaxBatchSize == 2

\* Largest --pw-concurrency tried.
MaxPwConcurrency == 2

\* Number of distinct dates a detail page may show.
NumDates == 1

Offers == 1..total

NoDates == [kind |-> "tuple", first |-> 0, last |-> 0]

RaisedException == [kind |-> "exc", first |-> 0, last |-> 0]

\* "return dates[0], dates[-1]" of a sorted list
DateRanges ==
    {[kind |-> "tuple", first |-> p[1], last |-> p[2]] :
        p \in {d \in (1..NumDates) \X (1..NumDates) : d[1] <= d[2]}}

\* extract_date_range_from_offer_http as gather sees it: both dates,
\* (None, None), or an exception that is not an Exception caught inside.
HttpOutcomes == DateRanges \cup {NoDates, RaisedException}

\* extract_date_range_from_offer_playwright returns a range or (None, None).
PwOutcomes == DateRanges \cup {NoDates}

\* A test that takes every tuple, (None, None) included
IsSuccess_AnyTuple(result) == result.kind = "tuple"

\* "isinstance(result, tuple) and result[0] and result[1]"
IsSuccess(result) == result.kind = "tuple" /\ result.first # 0 /\ result.last # 0

\* offers[i:i+batch_size] with one offer too many
BatchSlice_Overlapping(i, bs, n) == [k \in 1..(Min(i + bs + 1, n) - Min(i, n)) |-> i + k]

\* offers[i:i+batch_size]
BatchSlice(i, bs, n) == [k \in 1..(Min(i + bs, n) - Min(i, n)) |-> i + k]

\* asyncio.gather returning as soon as one task is done
HttpGatherDone_FirstCompleted == \E o \in Range(batch) : http_state[o] = "done"

\* "await asyncio.gather(*http_tasks, return_exceptions=True)" has returned
HttpGatherDone == \A o \in Range(batch) : http_state[o] = "done"

\* The offers of the current batch that went to the fallback.
FallbackOffers == {batch[idx] : idx \in Range(need_fallback_idxs)}

\* "await asyncio.gather(*pw_tasks, return_exceptions=True)" has returned
PwGatherDone == \A o \in FallbackOffers : pw_state[o] = "done"

\* need_fallback_idxs as the loop over zip(batch, http_results) builds it
RECURSIVE NeedFallback(_, _, _)
NeedFallback(b, results, idx) ==
    IF idx > Len(b) THEN <<>>
    ELSE IF IsSuccess(results[b[idx]])
         THEN NeedFallback(b, results, idx + 1)
         ELSE <<idx>> \o NeedFallback(b, results, idx + 1)

\* offer.dates = f"{first_date} - {last_date}"
DatesOf(result) == <<result.first, result.last>>

\* offer.dates as extract_offers_from_page left it
OriginalDates == <<0 - 1, 0 - 1>>

EnrichInit ==
    /\ en_pc = "for"
    /\ total \in 1..MaxOffers
    /\ batch_size \in 1..MaxBatchSize
    /\ \E c \in 0..MaxPwConcurrency : pw_concurrency = Max(1, c)
    /\ batch_i = 0
    /\ batch = <<>>
    /\ http_state = [o \in Offers |-> "idle"]
    /\ http_results = [o \in Offers |-> NoDates]
    /\ need_fallback_idxs = <<>>
    /\ pw_state = [o \in Offers |-> "idle"]
    /\ pw_results = [o \in Offers |-> NoDates]
    /\ pw_semaphore = pw_concurrency
    /\ open_pages = 0
    /\ dates = [o \in Offers |-> OriginalDates]
    /\ batches = <<>>
    /\ enriched_offers = <<>>
    /\ CrawlIdle /\ ScrapeIdle /\ PlaywrightIdle /\ DedupeIdle
       /\ LifecycleIdle
       /\ ProcessIdle
       /\ SaveIdle
       /\ FixerIdle
       /\ DatefixIdle
       /\ DestfixIdle
       /\ RangeIdle

\* Top of the for loop: slice the batch and hand its HTTP coroutines to gather.
EnrichStartBatch ==
    /\ en_pc = "for"
    /\ batch_i < total
    /\ LET b == BatchSlice(batch_i, batch_size, total)
       IN  /\ batch' = b
           /\ batches' = Append(batches, b)
           /\ http_state' = [o \in Offers |-> IF o \in Range(b) THEN "pending" ELSE http_state[o]]
    /\ need_fallback_idxs' = <<>>
    /\ en_pc' = "http_wait"
    /\ UNCHANGED <<total, batch_size, pw_concurrency, batch_i, http_results, pw_state,
                   pw_results, pw_semaphore, open_pages, dates>>
    /\ UNCHANGED enriched_offers
    /\ UNCHANGED enrichOthers

\* An HTTP task reaches session.get: the request is in flight.
HttpStart(o) ==
    /\ http_state[o] = "pending"
    /\ http_state' = [http_state EXCEPT ![o] = "running"]
    /\ UNCHANGED <<en_pc, total, batch_size, pw_concurrency, batch_i, batch, http_results,
                   need_fallback_idxs, pw_state, pw_results, pw_semaphore, open_pages,
                   dates, batches>>
    /\ UNCHANGED enriched_offers
    /\ UNCHANGED enrichOthers

\* An HTTP task ends.
HttpFinish(o) ==
    /\ http_state[o] = "running"
    /\ \E r \in HttpOutcomes : http_results' = [http_results EXCEPT ![o] = r]
    /\ http_state' = [http_state EXCEPT ![o] = "done"]
    /\ UNCHANGED <<en_pc, total, batch_size, pw_concurrency, batch_i, batch,
                   need_fallback_idxs, pw_state, pw_results, pw_semaphore, open_pages,
                   dates, batches>>
    /\ UNCHANGED enriched_offers
    /\ UNCHANGED enrichOthers

\* gather returned: lines 504-525, and lines 536-541 when nothing needs the fallback.
EnrichHttpCollect ==
    /\ en_pc = "http_wait"
    /\ HttpGatherDone
    /\ LET nf == NeedFallback(batch, http_results, 1)
       IN  /\ need_fallback_idxs' = nf
           /\ dates' = [o \in Offers |->
                           IF o \in Range(batch) /\ IsSuccess(http_results[o])
                           THEN DatesOf(http_results[o])
                           ELSE dates[o]]
           /\ IF nf # <<>>
              THEN /\ pw_state' = [o \in Offers |->
                                     IF o \in {batch[idx] : idx \in Range(nf)}
                                     THEN "pending" ELSE pw_state[o]]
                   /\ en_pc' = "pw_wait"
                   /\ UNCHANGED batch_i
              ELSE /\ batch_i' = batch_i + batch_size
                   /\ en_pc' = "for"
                   /\ UNCHANGED pw_state
    /\ UNCHANGED <<total, batch_size, pw_concurrency, batch, http_state, http_results,
                   pw_results, pw_semaphore, open_pages, batches>>
    /\ UNCHANGED enriched_offers
    /\ UNCHANGED enrichOthers

\* _guarded_pw enters "async with self._pw_semaphore" and the fallback opens
\* its page; context.new_page() may raise, which ends the task with (None, None).
PwAcquire(o) ==
    /\ pw_state[o] = "pending"
    /\ pw_semaphore > 0
    /\ \/ /\ pw_state' = [pw_state EXCEPT ![o] = "page"]
          /\ pw_semaphore' = pw_semaphore - 1
          /\ open_pages' = open_pages + 1
          /\ UNCHANGED pw_results
       \/ /\ pw_state' = [pw_state EXCEPT ![o] = "done"]
          /\ pw_results' = [pw_results EXCEPT ![o] = NoDates]
          /\ UNCHANGED <<pw_semaphore, open_pages>>
    /\ UNCHANGED <<en_pc, total, batch_size, pw_concurrency, batch_i, batch, http_state,
                   http_results, need_fallback_idxs, dates, batches>>
    /\ UNCHANGED enriched_offers
    /\ UNCHANGED enrichOthers

\* Lines 290-321 and the handler in lines 368-376: the first page is closed on
\* every path.  With dates the task returns them; after an exception it
\* returns (None, None); without dates it opens page2 (line 326).
PwFirstPage(o) ==
    /\ pw_state[o] = "page"
    /\ \/ \E r \in PwOutcomes :
             /\ pw_results' = [pw_results EXCEPT ![o] = r]
             /\ pw_state' = [pw_state EXCEPT ![o] = "done"]
             /\ open_pages' = open_pages - 1
             /\ pw_semaphore' = pw_semaphore + 1
       \/ /\ pw_state' = [pw_state EXCEPT ![o] = "page2"]
          /\ open_pages' = (open_pages - 1) + 1
          /\ UNCHANGED <<pw_results, pw_semaphore>>
    /\ UNCHANGED <<en_pc, total, batch_size, pw_concurrency, batch_i, batch, http_state,
                   http_results, need_fallback_idxs, dates, batches>>
    /\ UNCHANGED enriched_offers
    /\ UNCHANGED enrichOthers

\* Lines 327-367: page2 is closed (line 345) when goto and evaluate succeed;
\* when one of them raises, "except Exception: pass" leaves it open.
PwSecondPage(o) ==
    /\ pw_state[o] = "page2"
    /\ \/ \E r \in PwOutcomes :
             /\ pw_results' = [pw_results EXCEPT ![o] = r]
             /\ open_pages' = open_pages - 1
       \/ /\ pw_results' = [pw_results EXCEPT ![o] = NoDates]
          /\ UNCHANGED open_pages
    /\ pw_state' = [pw_state EXCEPT ![o] = "done"]
    /\ pw_semaphore' = pw_semaphore + 1
    /\ UNCHANGED <<en_pc, total, batch_size, pw_concurrency, batch_i, batch, http_state,
                   http_results, need_fallback_idxs, dates, batches>>
    /\ UNCHANGED enriched_offers
    /\ UNCHANGED enrichOthers

\* The fallback gather returned: lines 526-541.
EnrichPwCollect ==
    /\ en_pc = "pw_wait"
    /\ PwGatherDone
    /\ dates' = [o \in Offers |->
                    IF o \in FallbackOffers /\ IsSuccess(pw_results[o])
                    THEN DatesOf(pw_results[o])
                    ELSE dates[o]]
    /\ batch_i' = batch_i + batch_size
    /\ en_pc' = "for"
    /\ UNCHANGED <<total, batch_size, pw_concurrency, batch, http_state, http_results,
                   need_fallback_idxs, pw_state, pw_results, pw_semaphore, open_pages,
                   batches>>
    /\ UNCHANGED enriched_offers
    /\ UNCHANGED enrichOthers

\* range(0, total, batch_size) is exhausted: "return offers".
EnrichReturn ==
    /\ en_pc = "for"
    /\ batch_i >= total
    /\ en_pc' = "done"
    /\ UNCHANGED <<total, batch_size, pw_concurrency, batch_i, batch, http_state,
                   http_results, need_fallback_idxs, pw_state, pw_results, pw_semaphore,
                   open_pages, dates, batches>>
    /\ enriched_offers' = [o \in 1..total |-> [link |-> o, dates |-> dates[o]]]
    /\ UNCHANGED enrichOthers

EnrichNext ==
    \/ EnrichStartBatch
    \/ \E o \in Offers : HttpStart(o)
    \/ \E o \in Offers : HttpFinish(o)
    \/ EnrichHttpCollect
    \/ \E o \in Offers : PwAcquire(o)
    \/ \E o \in Offers : PwFirstPage(o)
    \/ \E o \in Offers : PwSecondPage(o)
    \/ EnrichPwCollect
    \/ EnrichReturn

SpecEnrich == EnrichInit /\ [][EnrichNext]_vars

(***************************************************************************)
(* scrape_offers of AventuraScraper  (src/aventura_scraper.py)             *)
(*                                                                         *)
(* An offer link is a number 1..NumLinks and an offer is named by its      *)
(* link.  A listing page is the list of its offer links in document order; *)
(* "complete" is the set of links whose offer ends up with a title of five *)
(* characters or more, a price and a date range (process_link returns an   *)
(* offer for them and None for the others).                                *)
(***************************************************************************)

\* Number of distinct offer links on the site.
NumLinks == 4

\* Longest list of offer links (Aventura) or cards (Luxtravel, Profitours) of a page.
MaxPageLinks == 3

\* Largest --limit tried; 0 is "no limit".
MaxLimit == 2

\* Largest number of listing pages discover_listing_pages hands over.
MaxListings == 2

LinkIds == 1..NumLinks

\* "self.limit and len(self.offers) >= self.limit"
LimitReached == limit # 0 /\ Len(offers) >= limit

\* The for loop of lines 495-498: one task per link, at most self.limit tasks.
LinkTasks(offer_links) == IF limit # 0 THEN Take(offer_links, limit) ELSE offer_links

\* process_link for tasks[idx..], in task order: each task runs to its first
\* await (the detail fetch) before the next one starts, so the tests on
\* self.offers and self.seen_urls happen in this order.  The result is the
\* seen_urls afterwards and the offers the tasks return.
RECURSIVE ProcessLinks(_, _, _, _, _)
ProcessLinks(tasks, idx, seenUrls, complete, acc) ==
    IF idx > Len(tasks) THEN [seen_urls |-> seenUrls, offers |-> acc]
    ELSE LET link == tasks[idx]
         IN  IF LimitReached \/ link \in seenUrls
             THEN ProcessLinks(tasks, idx + 1, seenUrls, complete, acc)
             ELSE ProcessLinks(tasks, idx + 1, seenUrls \cup {link}, complete,
                               IF link \in complete THEN Append(acc, link) ELSE acc)

\* extract_offers_from_page
ExtractOffersFromPage(offer_links, complete) ==
    ProcessLinks(LinkTasks(offer_links), 1, seen_urls, complete, <<>>)

AventuraInit ==
    /\ sc_pc = "pages"
    /\ scraper = "aventura"
    /\ limit \in 0..MaxLimit
    /\ offers = <<>>
    /\ seen_urls = {}
    /\ n_listings \in 1..MaxListings
    /\ page_idx = 0
    /\ offer_cards = <<>>
    /\ card_idx = 0
    /\ page_offers = <<>>
    /\ CrawlIdle /\ EnrichIdle /\ PlaywrightIdle /\ DedupeIdle
       /\ LifecycleIdle
       /\ ProcessIdle
       /\ SaveIdle
       /\ FixerIdle
       /\ DatefixIdle
       /\ DestfixIdle
       /\ RangeIdle

\* One pass of the for loop of scrape_offers whose fetch_page gave None.
AventuraPageFailed ==
    /\ sc_pc = "pages"
    /\ page_idx < n_listings
    /\ page_idx' = page_idx + 1
    /\ UNCHANGED <<sc_pc, scraper, limit, offers, seen_urls, n_listings, offer_cards,
                   card_idx, page_offers>>
    /\ UNCHANGED scrapeOthers

\* One pass of the for loop of scrape_offers: lines 513-523.
AventuraScrapePage ==
    /\ sc_pc = "pages"
    /\ page_idx < n_listings
    /\ page_idx' = page_idx + 1
    /\ \E offer_links \in SeqsUpTo(LinkIds, MaxPageLinks), complete \in SUBSET LinkIds :
          LET res == ExtractOffersFromPage(offer_links, complete)
          IN  /\ offers' = offers \o res.offers
              /\ seen_urls' = res.seen_urls
    /\ sc_pc' = IF limit # 0 /\ Len(offers') >= limit THEN "done" ELSE "pages"
    /\ UNCHANGED <<scraper, limit, n_listings, offer_cards, card_idx, page_offers>>
    /\ UNCHANGED scrapeOthers

\* The for loop of scrape_offers is exhausted.
AventuraFinish ==
    /\ sc_pc = "pages"
    /\ page_idx = n_listings
    /\ sc_pc' = "done"
    /\ UNCHANGED <<scraper, limit, offers, seen_urls, n_listings, page_idx, offer_cards,
                   card_idx, page_offers>>
    /\ UNCHANGED scrapeOthers

AventuraNext == AventuraPageFailed \/ AventuraScrapePage \/ AventuraFinish

SpecAventura == AventuraInit /\ [][AventuraNext]_vars

(***************************************************************************)
(* scrape_offers of LuxtravelScraper and ProfitoursScraper                 *)
(* (src/luxtravel_scraper.py, src/profitours_scraper.py: the same code up  *)
(* to the selectors).  A card is a record: its link (0 when the card has   *)
(* no anchor, an empty href or a skipped href) and whether the rest of the *)
(* loop body gets to offers.append (title of five characters or more and   *)
(* no exception).                                                          *)
(***************************************************************************)

Cards == [link : 0..NumLinks, usable : BOOLEAN]

SinglePageInit ==
    /\ sc_pc = "start"
    /\ scraper \in {"luxtravel", "profitours"}
    /\ limit \in 0..MaxLimit
    /\ offers = <<>>
    /\ seen_urls = {}
    /\ n_listings = 0
    /\ page_idx = 0
    /\ offer_cards = <<>>
    /\ card_idx = 0
    /\ page_offers = <<>>
    /\ CrawlIdle /\ EnrichIdle /\ PlaywrightIdle /\ DedupeIdle
       /\ LifecycleIdle
       /\ ProcessIdle
       /\ SaveIdle
       /\ FixerIdle
       /\ DatefixIdle
       /\ DestfixIdle
       /\ RangeIdle

\* fetch_page(self.OFFERS_URL) gave None: "Failed to fetch offers page".
SinglePageFetchFailed ==
    /\ sc_pc = "start"
    /\ sc_pc' = "done"
    /\ UNCHANGED <<scraper, limit, offers, seen_urls, n_listings, page_idx, offer_cards,
                   card_idx, page_offers>>
    /\ UNCHANGED scrapeOthers

\* The page is fetched and extract_offers_from_page finds its cards.
SinglePageFetched ==
    /\ sc_pc = "start"
    /\ offer_cards' \in SeqsUpTo(Cards, MaxPageLinks)
    /\ card_idx' = 0
    /\ page_offers' = <<>>
    /\ sc_pc' = "cards"
    /\ UNCHANGED <<scraper, limit, offers, seen_urls, n_listings, page_idx>>
    /\ UNCHANGED scrapeOthers

\* One pass of "for idx, card in enumerate(offer_cards)" that does not break.
ExtractCard ==
    /\ sc_pc = "cards"
    /\ card_idx < Len(offer_cards)
    /\ ~LimitReached
    /\ card_idx' = card_idx + 1
    /\ LET card == offer_cards[card_idx + 1]
       IN  IF card.link = 0 \/ card.link \in seen_urls
           THEN UNCHANGED <<seen_urls, page_offers>>
           ELSE /\ seen_urls' = seen_urls \cup {card.link}
                /\ page_offers' = IF card.usable THEN Append(page_offers, card.link)
                                                 ELSE page_offers
    /\ UNCHANGED <<sc_pc, scraper, limit, offers, n_listings, page_idx, offer_cards>>
    /\ UNCHANGED scrapeOthers

\* The loop ends (exhausted, or the break) and scrape_offers extends self.offers.
ExtractDone ==
    /\ sc_pc = "cards"
    /\ card_idx = Len(offer_cards) \/ LimitReached
    /\ offers' = offers \o page_offers
    /\ sc_pc' = "done"
    /\ UNCHANGED <<scraper, limit, seen_urls, n_listings, page_idx, offer_cards, card_idx,
                   page_offers>>
    /\ UNCHANGED scrapeOthers

SinglePageNext == SinglePageFetchFailed \/ SinglePageFetched \/ ExtractCard \/ ExtractDone

SpecSinglePage == SinglePageInit /\ [][SinglePageNext]_vars

(***************************************************************************)
(* scrape of BohemiaScraper and TeztourScraper                             *)
(* (src/bohemia_scraper_v2.py, src/teztour_scraper_v2.py)                  *)
(*                                                                         *)
(* An offer is <<destination number, position on the destination page>>.   *)
(* scrape_log gets one record per scrape_destination call: the length of   *)
(* all_offers when it was called, the number of offers the page held and   *)
(* the number handed to enrich_offers_with_dates.                          *)
(***************************************************************************)

\* Largest number of destinations discover_destinations finds.
MaxDestinations == 2

\* Largest number of offers on one destination page.
MaxFound == 3

\* The offers extract_offers_from_page returns for destination d.
PageOffers(d, found) == [k \in 1..found |-> <<d, k>>]

\* "remaining = None if limit is None else max(0, limit - len(all_offers))";
\* only used with a limit.
Remaining == Max(0, pl_limit - Len(all_offers))

\* scrape_destination without "offers = offers[:max(0, limit)]"
DestinationOffers_Untruncated(page, lim, rem) == page

\* scrape_destination, lines 575-577: the per-destination limit
DestinationOffers(page, lim, rem) == IF lim # 0 THEN Take(page, Max(0, rem)) ELSE page

\* "if limit and len(all_offers) > limit: all_offers = all_offers[:limit]"
FinalCut(all, lim) == IF lim # 0 /\ Len(all) > lim THEN Take(all, lim) ELSE all

PlaywrightInit ==
    /\ pl_pc = "start"
    /\ pl_scraper \in {"bohemia", "teztour"}
    /\ pl_limit \in 0..MaxLimit
    /\ no_enrich \in BOOLEAN
    /\ n_destinations = 0
    /\ dest_i = 0
    /\ all_offers = <<>>
    /\ returned = <<>>
    /\ scrape_log = <<>>
    /\ CrawlIdle /\ EnrichIdle /\ ScrapeIdle /\ DedupeIdle
       /\ LifecycleIdle
       /\ ProcessIdle
       /\ SaveIdle
       /\ FixerIdle
       /\ DatefixIdle
       /\ DestfixIdle
       /\ RangeIdle

\* BohemiaScraper.scrape, lines 690-696: an empty discovery falls back to
\* the one hot-offers destination.
BohemiaDiscover ==
    /\ pl_pc = "start"
    /\ pl_scraper = "bohemia"
    /\ \E n \in 0..MaxDestinations : n_destinations' = IF n = 0 THEN 1 ELSE n
    /\ pl_pc' = "loop"
    /\ UNCHANGED <<pl_scraper, pl_limit, no_enrich, dest_i, all_offers, returned, scrape_log>>
    /\ UNCHANGED playwrightOthers

\* One pass of the for loop of BohemiaScraper.scrape that reaches
\* scrape_destination (lines 699-717).
BohemiaScrapeDestination ==
    /\ pl_pc = "loop"
    /\ pl_scraper = "bohemia"
    /\ dest_i < n_destinations
    /\ ~(pl_limit # 0 /\ Len(all_offers) >= pl_limit)
    /\ ~(pl_limit # 0 /\ Remaining = 0)
    /\ \E found \in 0..MaxFound, raised \in BOOLEAN :
          LET kept     == DestinationOffers(PageOffers(dest_i + 1, found), pl_limit, Remaining)
              enriched == IF ~raised /\ kept # <<>> /\ ~no_enrich THEN Len(kept) ELSE 0
          IN  /\ all_offers' = all_offers \o (IF raised THEN <<>> ELSE kept)
              /\ scrape_log' = Append(scrape_log,
                                      [before |-> Len(all_offers), found |-> found,
                                       enriched |-> enriched])
    /\ dest_i' = dest_i + 1
    /\ UNCHANGED <<pl_pc, pl_scraper, pl_limit, no_enrich, n_destinations, returned>>
    /\ UNCHANGED playwrightOthers

\* The loop of BohemiaScraper.scrape ends (exhausted or break): lines 719-724.
BohemiaFinish ==
    /\ pl_pc = "loop"
    /\ pl_scraper = "bohemia"
    /\ \/ dest_i = n_destinations
       \/ pl_limit # 0 /\ Len(all_offers) >= pl_limit
    /\ returned' = FinalCut(all_offers, pl_limit)
    /\ pl_pc' = "done"
    /\ UNCHANGED <<pl_scraper, pl_limit, no_enrich, n_destinations, dest_i, all_offers,
                   scrape_log>>
    /\ UNCHANGED playwrightOthers

\* TeztourScraper.scrape, lines 270-272.
TeztourDiscover ==
    /\ pl_pc = "start"
    /\ pl_scraper = "teztour"
    /\ n_destinations' \in 0..MaxDestinations
    /\ pl_pc' = IF n_destinations' = 0 THEN "main" ELSE "loop"
    /\ UNCHANGED <<pl_scraper, pl_limit, no_enrich, dest_i, all_offers, returned, scrape_log>>
    /\ UNCHANGED playwrightOthers

\* TeztourScraper.scrape, lines 276-288: no destinations, the main page.
TeztourMainPage ==
    /\ pl_pc = "main"
    /\ \E found \in 0..MaxFound : all_offers' = all_offers \o PageOffers(0, found)
    /\ pl_pc' = "final"
    /\ UNCHANGED <<pl_scraper, pl_limit, no_enrich, n_destinations, dest_i, returned,
                   scrape_log>>
    /\ UNCHANGED playwrightOthers

\* One pass of the for loop of TeztourScraper.scrape: lines 291-304.
TeztourScrapeDestination ==
    /\ pl_pc = "loop"
    /\ pl_scraper = "teztour"
    /\ dest_i < n_destinations
    /\ \E found \in 0..MaxFound, raised \in BOOLEAN :
          LET dest_offers == IF raised THEN <<>> ELSE PageOffers(dest_i + 1, found)
              extended    == all_offers \o dest_offers
          IN  /\ scrape_log' = Append(scrape_log,
                                      [before |-> Len(all_offers), found |-> found,
                                       enriched |-> 0])
              /\ IF pl_limit # 0 /\ Len(extended) >= pl_limit
                 THEN /\ all_offers' = Take(extended, pl_limit)
                      /\ pl_pc' = "final"
                 ELSE /\ all_offers' = extended
                      /\ pl_pc' = "loop"
    /\ dest_i' = dest_i + 1
    /\ UNCHANGED <<pl_scraper, pl_limit, no_enrich, n_destinations, returned>>
    /\ UNCHANGED playwrightOthers

\* TeztourScraper.scrape, lines 309-314.
TeztourFinish ==
    /\ pl_scraper = "teztour"
    /\ \/ pl_pc = "final"
       \/ pl_pc = "loop" /\ dest_i = n_destinations
    /\ returned' = FinalCut(all_offers, pl_limit)
    /\ pl_pc' = "done"
    /\ UNCHANGED <<pl_scraper, pl_limit, no_enrich, n_destinations, dest_i, all_offers,
                   scrape_log>>
    /\ UNCHANGED playwrightOthers

PlaywrightNext ==
    \/ BohemiaDiscover
    \/ BohemiaScrapeDestination
    \/ BohemiaFinish
    \/ TeztourDiscover
    \/ TeztourMainPage
    \/ TeztourScrapeDestination
    \/ TeztourFinish

SpecPlaywright == PlaywrightInit /\ [][PlaywrightNext]_vars

(***************************************************************************)
(* Duplicate removal of AngelTravelScraper.load_and_process_existing_data  *)
(* and DariTourScraper.scrape_all_offers                                   *)
(* (src/travel-comparator/python/angeltravel_scraper.py,                   *)
(*  src/travel-comparator/python/dari_tour_scraper.py)                     *)
(***************************************************************************)

\* Number of distinct titles.
NumTitles == 2

\* The links of the offers.
DedupeLinks == {1, 2}

\* Longest list handed to the duplicate removal.
MaxDedupeLen == 3

\* An offer: the two fields of the key and one field outside it.
DedupeOffers == [title : 1..NumTitles, link : DedupeLinks, price : {1, 2}]

\* A key that leaves the title out
OfferKey_LinkOnly(offer) == <<offer.link, offer.link>>

\* "key = (offer.title, offer.link)"
OfferKey(offer) == <<offer.title, offer.link>>

DedupeInit ==
    /\ dd_pc = "loop"
    /\ dd_scraper \in {"angeltravel", "daritour"}
    /\ dd_offers \in SeqsUpTo(DedupeOffers, MaxDedupeLen)
    /\ dd_i = 0
    /\ seen = {}
    /\ unique_offers = <<>>
    /\ CrawlIdle /\ EnrichIdle /\ ScrapeIdle /\ PlaywrightIdle
       /\ LifecycleIdle
       /\ ProcessIdle
       /\ SaveIdle
       /\ FixerIdle
       /\ DatefixIdle
       /\ DestfixIdle
       /\ RangeIdle

\* One pass of "for offer in offers" in load_and_process_existing_data.
AngelTravelDedupeStep ==
    /\ dd_pc = "loop"
    /\ dd_scraper = "angeltravel"
    /\ dd_i < Len(dd_offers)
    /\ LET offer == dd_offers[dd_i + 1]
           key   == OfferKey(offer)
       IN  IF key \notin seen
           THEN /\ seen' = seen \cup {key}
                /\ unique_offers' = Append(unique_offers, offer)
           ELSE UNCHANGED <<seen, unique_offers>>
    /\ dd_i' = dd_i + 1
    /\ UNCHANGED <<dd_pc, dd_scraper, dd_offers>>
    /\ UNCHANGED dedupeOthers

\* One pass of "for offer in all_offers" in scrape_all_offers.
DariTourDedupeStep ==
    /\ dd_pc = "loop"
    /\ dd_scraper = "daritour"
    /\ dd_i < Len(dd_offers)
    /\ LET offer == dd_offers[dd_i + 1]
           key   == OfferKey(offer)
       IN  IF key \notin seen
           THEN /\ seen' = seen \cup {key}
                /\ unique_offers' = Append(unique_offers, offer)
           ELSE UNCHANGED <<seen, unique_offers>>
    /\ dd_i' = dd_i + 1
    /\ UNCHANGED <<dd_pc, dd_scraper, dd_offers>>
    /\ UNCHANGED dedupeOthers

\* The loop is exhausted: "self.scraped_offers = unique_offers".
DedupeDone ==
    /\ dd_pc = "loop"
    /\ dd_i = Len(dd_offers)
    /\ dd_pc' = "done"
    /\ UNCHANGED <<dd_scraper, dd_offers, dd_i, seen, unique_offers>>
    /\ UNCHANGED dedupeOthers

DedupeNext ==
    \/ AngelTravelDedupeStep
    \/ DariTourDedupeStep
    \/ DedupeDone

SpecDedupe == DedupeInit /\ [][DedupeNext]_vars

(***************************************************************************)
(* run_scraper and the context manager of PlaywrightScraperBase            *)
(* (src/playwright_scraper_base.py)                                        *)
(*                                                                         *)
(* The calls into Playwright that open a resource either return or raise;  *)
(* the four close calls of __aexit__ return.                               *)
(***************************************************************************)

Resources == {"page", "context", "browser", "playwright"}

\* __aenter__: start the driver, launch the browser, new_context, new_page.
OpenOrder == <<"playwright", "browser", "context", "page">>

\* An __aexit__ that closes the browser before the page
CloseOrder_BrowserFirst == <<"browser", "context", "page", "playwright">>

\* __aexit__: page.close, context.close, browser.close, playwright.stop.
CloseOrder == <<"page", "context", "browser", "playwright">>

LifecycleInit ==
    /\ lc_pc = "args"
    /\ scraper_class \in {"BohemiaScraper", "TeztourScraper"}
    /\ args_limit \in 0..MaxLimit
    /\ lc_limit = 0
    /\ handles = [r \in Resources |-> "none"]
    /\ lc_i = 0
    /\ entered = FALSE
    /\ body_raised = FALSE
    /\ n_scraped = 0
    /\ closed = <<>>
    /\ CrawlIdle /\ EnrichIdle /\ ScrapeIdle /\ PlaywrightIdle
       /\ DedupeIdle
       /\ ProcessIdle
       /\ SaveIdle
       /\ FixerIdle
       /\ DatefixIdle
       /\ DestfixIdle
       /\ RangeIdle

\* run_scraper up to the async with: "limit = None if args.limit == 0 else
\* args.limit" and the constructor.
RunScraperStart ==
    /\ lc_pc = "args"
    /\ lc_limit' = args_limit
    /\ lc_pc' = "aenter"
    /\ UNCHANGED <<scraper_class, args_limit, handles, lc_i, entered, body_raised,
                   n_scraped, closed>>
    /\ UNCHANGED lifecycleOthers

\* One statement of __aenter__: the resource is opened, or the call raises
\* and run_scraper ends without __aexit__.
AEnterStep ==
    /\ lc_pc = "aenter"
    /\ lc_i < Len(OpenOrder)
    /\ \/ /\ handles' = [handles EXCEPT ![OpenOrder[lc_i + 1]] = "open"]
          /\ lc_i' = lc_i + 1
          /\ UNCHANGED lc_pc
       \/ /\ lc_pc' = "raised"
          /\ UNCHANGED <<handles, lc_i>>
    /\ UNCHANGED <<scraper_class, args_limit, lc_limit, entered, body_raised, n_scraped,
                   closed>>
    /\ UNCHANGED lifecycleOthers

\* "return self"
AEnterReturn ==
    /\ lc_pc = "aenter"
    /\ lc_i = Len(OpenOrder)
    /\ entered' = TRUE
    /\ lc_i' = 0
    /\ lc_pc' = "scrape"
    /\ UNCHANGED <<scraper_class, args_limit, lc_limit, handles, body_raised, n_scraped,
                   closed>>
    /\ UNCHANGED lifecycleOthers

\* "offers = await scraper.scrape(limit=limit)": a list within the limit,
\* or an exception.
LifecycleScrape ==
    /\ lc_pc = "scrape"
    /\ \/ /\ n_scraped' \in 0..(IF lc_limit # 0 THEN lc_limit ELSE MaxFound)
          /\ lc_pc' = "save"
          /\ UNCHANGED body_raised
       \/ /\ body_raised' = TRUE
          /\ lc_pc' = "aexit"
          /\ UNCHANGED n_scraped
    /\ UNCHANGED <<scraper_class, args_limit, lc_limit, handles, lc_i, entered, closed>>
    /\ UNCHANGED lifecycleOthers

\* "scraper.save_results(offers)": writes the file, or raises (open, json.dump).
LifecycleSave ==
    /\ lc_pc = "save"
    /\ body_raised' \in BOOLEAN
    /\ lc_pc' = "aexit"
    /\ UNCHANGED <<scraper_class, args_limit, lc_limit, handles, lc_i, entered, n_scraped,
                   closed>>
    /\ UNCHANGED lifecycleOthers

\* One "if self.x: await self.x.close()" of __aexit__.
AExitStep ==
    /\ lc_pc = "aexit"
    /\ lc_i < Len(CloseOrder)
    /\ LET r == CloseOrder[lc_i + 1]
       IN  IF handles[r] # "none"
           THEN /\ handles' = [handles EXCEPT ![r] = "closed"]
                /\ closed' = Append(closed, r)
           ELSE UNCHANGED <<handles, closed>>
    /\ lc_i' = lc_i + 1
    /\ UNCHANGED <<lc_pc, scraper_class, args_limit, lc_limit, entered, body_raised,
                   n_scraped>>
    /\ UNCHANGED lifecycleOthers

\* __aexit__ returns None: an exception of the body propagates, otherwise
\* run_scraper prints the total and returns.
AExitReturn ==
    /\ lc_pc = "aexit"
    /\ lc_i = Len(CloseOrder)
    /\ lc_pc' = IF body_raised THEN "raised" ELSE "returned"
    /\ UNCHANGED <<scraper_class, args_limit, lc_limit, handles, lc_i, entered, body_raised,
                   n_scraped, closed>>
    /\ UNCHANGED lifecycleOthers

LifecycleNext ==
    \/ RunScraperStart
    \/ AEnterStep
    \/ AEnterReturn
    \/ LifecycleScrape
    \/ LifecycleSave
    \/ AExitStep
    \/ AExitReturn

SpecLifecycle == LifecycleInit /\ [][LifecycleNext]_vars

(***************************************************************************)
(* process_offers.py and create_db.py: the scraped files are merged into   *)
(* unified_offers.json, which create_db loads into SQLite.                 *)
(*                                                                         *)
(* A scraped record has the six fields the scrapers write.  Its link is    *)
(* <<file number, position in the file>>.  A price string is a record: the *)
(* number in it and the currency mark that follows the number.  Amounts of *)
(* money are integers: whole units in a price string, cents in price_eur.  *)
(* None is the string "None", except for price_eur, where it is -1; "lv"   *)
(* is the leva mark of a price string.                                     *)
(***************************************************************************)

\* Longest file_paths tried.
MaxFiles == 2

\* BGN_TO_EUR = 0.511292981, times 10^9
BgnToEurE9 == 511292981

\* USD_TO_EUR = 0.85, times 100
UsdToEurE2 == 85

\* The list "files" of the script, in its order.
MainFiles == <<"angel_travel_scrape.json", "aratur.json", "dari_tour_scraped.json">>

\* agency_map.get(file_path.split('/')[-1], 'Unknown')
AgencyOf(file_path) ==
    CASE file_path = "angel_travel_scrape.json" -> "Angel Travel"
      [] file_path = "aratur.json" -> "Aratur"
      [] file_path = "dari_tour_scraped.json" -> "Dari Tour"
      [] OTHER -> "Unknown"

None == "None"

NonePrice == 0 - 1

GoodTitle == "Holiday in Greece by the sea"

PromoTitle == "Instagram giveaway"

\* The price strings tried: "2 EUR", "0 EUR", "2 lv.", "2$" and "call us".
PriceStrings ==
    {[amount |-> 2, mark |-> "EUR"], [amount |-> 0, mark |-> "EUR"],
     [amount |-> 2, mark |-> "lv"], [amount |-> 2, mark |-> "$"],
     [amount |-> 0, mark |-> ""]}

\* The records tried, without their link: a good offer in each price
\* format, a promotional title, and a title that is null in the JSON.
ScrapedRecords ==
    {[title |-> GoodTitle, price |-> p, dates |-> "", destination |-> "",
      scraped_at |-> "2025-11-06T10:00:00"] : p \in PriceStrings}
    \cup {[title |-> t, price |-> [amount |-> 2, mark |-> "EUR"], dates |-> "",
           destination |-> "", scraped_at |-> "2025-11-06T10:00:00"] :
            t \in {PromoTitle, None}}

\* The lengths of a file's list of offers.
FileLengths == 0..2

\* What open and json.load find for a file.
FileContents ==
    {[status |-> "missing", data |-> <<>>], [status |-> "invalid json", data |-> <<>>]}
    \cup {[status |-> "ok", data |-> d] :
            d \in UNION {[1..k -> ScrapedRecords] : k \in FileLengths}}

\* offer.get(key, default)
Get(offer, key, default) == IF key \in DOMAIN offer THEN offer[key] ELSE default

\* round(x, 2) of x = amount * rateE9 / 10^9, in cents
RoundToCents(amount, rateE9) == (amount * rateE9 + 5000000) \div 10000000

\* parse_price: cents, or NonePrice
ParsePrice(price_str, agency) ==
    IF price_str.mark = "EUR" THEN price_str.amount * 100
    ELSE IF agency = "Angel Travel"
         THEN IF price_str.mark = "lv"
              THEN RoundToCents(price_str.amount, BgnToEurE9)
              ELSE NonePrice
         ELSE IF price_str.mark = "lv"
              THEN RoundToCents(price_str.amount, BgnToEurE9)
              ELSE IF price_str.mark = "$"
                   THEN price_str.amount * UsdToEurE2
                   ELSE NonePrice

\* normalize_destination falls back to dest.title() for a name without mapping
NormalizeDestination(dest) == <<"title case", dest>>

\* offer.get('title', '').strip() raises on a null title
StandardizeRaises(offer) == Get(offer, "title", "") = None

\* standardize_offer for an offer it does not raise on; the dates and the
\* duration of the records tried are all None.
StandardizeOffer(offer, link, agency, id) ==
    [id |-> id,
     agency |-> agency,
     title |-> Get(offer, "title", ""),
     destination |-> NormalizeDestination(IF Get(offer, "destination", "") # ""
                                          THEN Get(offer, "destination", "")
                                          ELSE Get(offer, "title", "")),
     price_eur |-> ParsePrice(Get(offer, "price", [amount |-> 0, mark |-> ""]), agency),
     dates_start |-> None,
     dates_end |-> None,
     duration_days |-> None,
     link |-> link,
     scraped_at |-> Get(offer, "scrapedAt", "")]

\* is_valid_travel_offer without the test on price_eur
IsValidTravelOffer_NoPriceTest(offer) == offer.title # PromoTitle

\* is_valid_travel_offer
IsValidTravelOffer(offer) ==
    /\ offer.title # PromoTitle
    /\ ~(offer.price_eur = NonePrice \/ offer.price_eur = 0)

\* An except clause that ends the loop over file_paths
AfterFileError_Abort(i) == Len(file_paths)

\* "except Exception as e: print(...)": the for loop goes on with the next file
AfterFileError(i) == i + 1

\* The columns the INSERT of create_db reads from each offer.
InsertKeys ==
    {"id", "agency", "title", "destination", "price_eur", "dates_start", "dates_end",
     "duration_days", "program_info", "price_includes", "price_excludes", "hotel_titles",
     "booking_conditions", "link", "scraped_at"}

\* A row an earlier run of create_db left in the table.
EarlierRow == [id |-> 0 - 1, link |-> <<0, 0>>]

ProcessInit ==
    /\ pf_pc = "loop"
    /\ \E n \in 1..MaxFiles :
          /\ file_paths = Take(MainFiles, n)
          /\ disk \in [1..Len(file_paths) -> FileContents]
    /\ file_i = 0
    /\ offer_i = 0
    /\ unified_offers = <<>>
    /\ next_id = 1
    /\ unified_json = <<>>
    /\ table = {EarlierRow}
    /\ db_i = 0
    /\ CrawlIdle /\ EnrichIdle /\ ScrapeIdle /\ PlaywrightIdle
       /\ DedupeIdle /\ LifecycleIdle
       /\ SaveIdle
       /\ FixerIdle
       /\ DatefixIdle
       /\ DestfixIdle
       /\ RangeIdle

\* open or json.load raises for the next file.
ProcessFileUnreadable ==
    /\ pf_pc = "loop"
    /\ file_i < Len(file_paths)
    /\ disk[file_i + 1].status # "ok"
    /\ file_i' = AfterFileError(file_i)
    /\ UNCHANGED <<pf_pc, file_paths, disk, offer_i, unified_offers, next_id, unified_json,
                   table, db_i>>
    /\ UNCHANGED processOthers

\* The next file is loaded: "data = json.load(f)".
ProcessFileLoaded ==
    /\ pf_pc = "loop"
    /\ file_i < Len(file_paths)
    /\ disk[file_i + 1].status = "ok"
    /\ offer_i' = 0
    /\ pf_pc' = "offers"
    /\ UNCHANGED <<file_paths, disk, file_i, unified_offers, next_id, unified_json, table,
                   db_i>>
    /\ UNCHANGED processOthers

\* One pass of "for offer in data"; an exception of standardize_offer ends
\* the try block of the file.
ProcessOffer ==
    /\ pf_pc = "offers"
    /\ offer_i < Len(disk[file_i + 1].data)
    /\ LET offer == disk[file_i + 1].data[offer_i + 1]
           standardized == StandardizeOffer(offer, <<file_i + 1, offer_i + 1>>,
                                            AgencyOf(file_paths[file_i + 1]), next_id)
       IN  IF StandardizeRaises(offer)
           THEN /\ file_i' = AfterFileError(file_i)
                /\ pf_pc' = "loop"
                /\ UNCHANGED <<offer_i, unified_offers, next_id>>
           ELSE /\ unified_offers' = IF IsValidTravelOffer(standardized)
                                     THEN Append(unified_offers, standardized)
                                     ELSE unified_offers
                /\ next_id' = next_id + 1
                /\ offer_i' = offer_i + 1
                /\ UNCHANGED <<pf_pc, file_i>>
    /\ UNCHANGED <<file_paths, disk, unified_json, table, db_i>>
    /\ UNCHANGED processOthers

\* "for offer in data" is exhausted.
ProcessFileEnd ==
    /\ pf_pc = "offers"
    /\ offer_i = Len(disk[file_i + 1].data)
    /\ file_i' = file_i + 1
    /\ pf_pc' = "loop"
    /\ UNCHANGED <<file_paths, disk, offer_i, unified_offers, next_id, unified_json, table,
                   db_i>>
    /\ UNCHANGED processOthers

\* "return unified_offers", and the script dumps the list to unified_offers.json.
ProcessReturn ==
    /\ pf_pc = "loop"
    /\ file_i >= Len(file_paths)
    /\ unified_json' = unified_offers
    /\ pf_pc' = "returned"
    /\ UNCHANGED <<file_paths, disk, file_i, offer_i, unified_offers, next_id, table, db_i>>
    /\ UNCHANGED processOthers

\* create_db up to the insert loop: DROP TABLE, CREATE TABLE, json.load.
CreateDbStart ==
    /\ pf_pc = "returned"
    /\ table' = {}
    /\ db_i' = 0
    /\ pf_pc' = "insert"
    /\ UNCHANGED <<file_paths, disk, file_i, offer_i, unified_offers, next_id, unified_json>>
    /\ UNCHANGED processOthers

\* One pass of "for offer in offers": building the parameter tuple raises
\* KeyError when the offer lacks a key; otherwise INSERT OR REPLACE by id.
CreateDbInsert ==
    /\ pf_pc = "insert"
    /\ db_i < Len(unified_json)
    /\ LET offer == unified_json[db_i + 1]
       IN  IF InsertKeys \subseteq DOMAIN offer
           THEN /\ table' = {row \in table : row.id # offer.id}
                               \cup {[id |-> offer.id, link |-> offer.link]}
                /\ db_i' = db_i + 1
                /\ UNCHANGED pf_pc
           ELSE /\ pf_pc' = "db_raised"
                /\ UNCHANGED <<table, db_i>>
    /\ UNCHANGED <<file_paths, disk, file_i, offer_i, unified_offers, next_id, unified_json>>
    /\ UNCHANGED processOthers

\* The insert loop is exhausted: commit, close, print.
CreateDbCommit ==
    /\ pf_pc = "insert"
    /\ db_i = Len(unified_json)
    /\ pf_pc' = "db_done"
    /\ UNCHANGED <<file_paths, disk, file_i, offer_i, unified_offers, next_id, unified_json,
                   table, db_i>>
    /\ UNCHANGED processOthers

ProcessNext ==
    \/ ProcessFileUnreadable
    \/ ProcessFileLoaded
    \/ ProcessOffer
    \/ ProcessFileEnd
    \/ ProcessReturn
    \/ CreateDbStart
    \/ CreateDbInsert
    \/ CreateDbCommit

SpecProcess == ProcessInit /\ [][ProcessNext]_vars

(***************************************************************************)
(* save_results of the eight scrapers                                      *)
(*                                                                         *)
(* A scraped offer is a record of the six fields every offer dataclass     *)
(* has; AratourOffer has more fields, none of which its save_results       *)
(* reads.  A field is "" or a non-empty string.                            *)
(***************************************************************************)

\* Longest list of offers saved.
MaxSaved == 2

Agencies ==
    {"aventura", "luxtravel", "profitours", "bohemia", "teztour", "angeltravel",
     "aratour", "daritour"}

\* The offers a scraper may hold; link and scraped_at are never empty.
OfferObjects ==
    [title : {"", "title"}, link : {"link"}, price : {"", "price"}, dates : {"", "dates"},
     destination : {"", "destination"}, scraped_at : {"2025-11-06T10:00:00"}]

\* dataclasses.asdict of AventuraOffer, LuxtravelOffer, ProftoursOffer and
\* BaseOffer, and to_dict of AngelTravelOffer
AsDict(offer) ==
    [title |-> offer.title, link |-> offer.link, price |-> offer.price,
     dates |-> offer.dates, destination |-> offer.destination,
     scraped_at |-> offer.scraped_at]

\* The dictionary AratourScraper.save_results builds for an offer.
AratourRecord(offer) ==
    [title |-> offer.title, link |-> offer.link, price |-> offer.price,
     dates |-> offer.dates]

\* The dictionary DariTourScraper.save_results builds for an offer.
DariTourRecord(offer) ==
    [title |-> offer.title, link |-> offer.link, price |-> offer.price,
     dates |-> offer.dates, destination |-> offer.destination]

SaveInit ==
    /\ sv_pc = "scraped"
    /\ sv_agency \in Agencies
    /\ scraped_offers \in SeqsUpTo(OfferObjects, MaxSaved)
    /\ output_json = <<>>
    /\ CrawlIdle /\ EnrichIdle /\ ScrapeIdle /\ PlaywrightIdle
       /\ DedupeIdle /\ LifecycleIdle /\ ProcessIdle
       /\ FixerIdle
       /\ DatefixIdle
       /\ DestfixIdle
       /\ RangeIdle

\* save_results of AventuraScraper, LuxtravelScraper and ProfitoursScraper.
SaveAsdict ==
    /\ sv_pc = "scraped"
    /\ sv_agency \in {"aventura", "luxtravel", "profitours"}
    /\ output_json' = [k \in 1..Len(scraped_offers) |-> AsDict(scraped_offers[k])]
    /\ sv_pc' = "saved"
    /\ UNCHANGED <<sv_agency, scraped_offers>>
    /\ UNCHANGED saveOthers

\* PlaywrightScraperBase.save_results on the list scrape built with asdict.
SavePlaywright ==
    /\ sv_pc = "scraped"
    /\ sv_agency \in {"bohemia", "teztour"}
    /\ output_json' = [k \in 1..Len(scraped_offers) |-> AsDict(scraped_offers[k])]
    /\ sv_pc' = "saved"
    /\ UNCHANGED <<sv_agency, scraped_offers>>
    /\ UNCHANGED saveOthers

\* AngelTravelScraper.save_results
SaveAngelTravel ==
    /\ sv_pc = "scraped"
    /\ sv_agency = "angeltravel"
    /\ output_json' = [k \in 1..Len(scraped_offers) |-> AsDict(scraped_offers[k])]
    /\ sv_pc' = "saved"
    /\ UNCHANGED <<sv_agency, scraped_offers>>
    /\ UNCHANGED saveOthers

\* AratourScraper.save_results
SaveAratour ==
    /\ sv_pc = "scraped"
    /\ sv_agency = "aratour"
    /\ output_json' = [k \in 1..Len(scraped_offers) |-> AratourRecord(scraped_offers[k])]
    /\ sv_pc' = "saved"
    /\ UNCHANGED <<sv_agency, scraped_offers>>
    /\ UNCHANGED saveOthers

\* DariTourScraper.save_results
SaveDariTour ==
    /\ sv_pc = "scraped"
    /\ sv_agency = "daritour"
    /\ output_json' = [k \in 1..Len(scraped_offers) |-> DariTourRecord(scraped_offers[k])]
    /\ sv_pc' = "saved"
    /\ UNCHANGED <<sv_agency, scraped_offers>>
    /\ UNCHANGED saveOthers

SaveNext ==
    \/ SaveAsdict
    \/ SavePlaywright
    \/ SaveAngelTravel
    \/ SaveAratour
    \/ SaveDariTour

SpecSave == SaveInit /\ [][SaveNext]_vars

(***************************************************************************)
(* fix_aratur_issues.main and fix_final_issues.main                        *)
(*                                                                         *)
(* An offer is a dictionary with string values; the Aratour scraper saves  *)
(* title, link, price and dates, and the fixers add destination.  Titles,  *)
(* destinations and the leva mark are written in Latin letters.  A fetched *)
(* page is described by what the regular expressions of                    *)
(* extract_offer_details_from_html find in it.  A date is a day of June    *)
(* 2026.                                                                   *)
(***************************************************************************)

\* Longest list of offers in aratur.json.
MaxFixOffers == 2

FixerScripts == {"fix_aratur_issues", "fix_final_issues"}

\* The calls of main, in order; main returns after load_offers when the
\* list is empty.
MainSteps_BackupAfterFix(script) ==
    IF script = "fix_aratur_issues"
    THEN <<"load_offers", "fix_offers_with_fresh_data", "save_backup",
           "review_suspicious_prices", "save_offers">>
    ELSE <<"load_offers", "fix_invalid_destinations", "fix_date_inconsistencies",
           "save_backup", "review_suspicious_prices", "save_offers">>

MainSteps(script) ==
    IF script = "fix_aratur_issues"
    THEN <<"load_offers", "save_backup", "fix_offers_with_fresh_data",
           "review_suspicious_prices", "save_offers">>
    ELSE <<"load_offers", "save_backup", "fix_invalid_destinations",
           "fix_date_inconsistencies", "review_suspicious_prices", "save_offers">>

\* strftime("%d.%m.%Y") of the days of June 2026 the model uses
DateText ==
    <<"01.06.2026", "02.06.2026", "03.06.2026", "04.06.2026", "05.06.2026",
      "06.06.2026", "07.06.2026", "08.06.2026", "09.06.2026", "10.06.2026",
      "11.06.2026", "12.06.2026", "13.06.2026", "14.06.2026">>

Days == DOMAIN DateText

\* The same days written without the leading zero, which strptime accepts
\* and strftime never writes.
DateTextShort ==
    <<"1.06.2026", "2.06.2026", "3.06.2026", "4.06.2026", "5.06.2026",
      "6.06.2026", "7.06.2026", "8.06.2026", "9.06.2026">>

\* The texts strptime(text, "%d.%m.%Y") reads as day d
DateForms(d) ==
    {DateText[d]} \cup (IF d \in DOMAIN DateTextShort THEN {DateTextShort[d]} ELSE {})

\* f"{first} - {last}"
RangeText(first, last) == DateText[first] \o " - " \o DateText[last]

\* datetime.strptime(text, "%d.%m.%Y") raises ValueError
StrptimeRaises(text) == \A d \in Days : text \notin DateForms(d)

\* datetime.strptime(text, "%d.%m.%Y")
Strptime(text) == CHOOSE d \in Days : text \in DateForms(d)

FixerTitles ==
    {"Malta 5 dni / 4 noshtuvki", "Gruzia i Armenia 9 dni", "Ranni zapisvania"}

\* word in title, for the words the fixers look for
TitleContains(title, word) ==
    \/ title = "Malta 5 dni / 4 noshtuvki" /\ word = "Malta"
    \/ title = "Gruzia i Armenia 9 dni" /\ word \in {"Gruzia", "Armenia"}
    \/ title = "Rim 3 noshtuvki i kruiz 7 dni" /\ word \in {"Rim", "kruiz"}
    \/ title = "Rim 4 noshtuvki" /\ word = "Rim"

\* The offers aratur.json may hold: a complete one, one as the scraper
\* saves it, one with blank dates, one without a link, one without a price.
FixerOffers ==
    {[title |-> "Malta 5 dni / 4 noshtuvki", link |-> "link", price |-> "500 lv.",
      dates |-> "01.06.2026 - 05.06.2026", destination |-> "Malta"],
     [title |-> "Gruzia i Armenia 9 dni", link |-> "link", price |-> "500 lv.",
      dates |-> "01.06.2026 - 03.06.2026"],
     [title |-> "Ranni zapisvania", link |-> "link", price |-> "500 lv.",
      dates |-> " ", destination |-> "Pochivki Malta"],
     [title |-> "Malta 5 dni / 4 noshtuvki", link |-> "", price |-> "",
      dates |-> "01.06.2026", destination |-> ""],
     [title |-> "Malta 5 dni / 4 noshtuvki", link |-> "link", price |-> "",
      dates |-> "01.06.2026 - 05.06.2026", destination |-> "Malta"]}

\* What the page holds: the digits the price patterns match ("" when none
\* matches), the date texts of the first span or calendar block with
\* dates, the days of "N dni / M noshtuvki" (0 when absent), and the names
\* the destination patterns capture from <title>, in pattern order.
NothingFound ==
    [price_match |-> "", all_dates |-> <<>>, days |-> 0, title_dests |-> <<>>]

Pages ==
    {NothingFound,
     [price_match |-> "700", all_dates |-> <<"03.06.2026">>, days |-> 5,
      title_dests |-> <<"Malta">>],
     [price_match |-> "", all_dates |-> <<"05.06.2026", "03.06.2026">>, days |-> 0,
      title_dests |-> <<"Atlantis", "Gartsia">>],
     [price_match |-> "700", all_dates |-> <<"31.02.2026">>, days |-> 0,
      title_dests |-> <<"Malta">>],
     [price_match |-> "700", all_dates |-> <<>>, days |-> 0, title_dests |-> <<>>]}

\* str.strip, on the strings of the model
Strip(s) == IF s = " " THEN "" ELSE s

\* not value, for a string or None
Falsy(value) == value \in {None, ""}

\* needs_fixing of fix_offers_with_fresh_data
NeedsFixing_Always(offer) == TRUE

NeedsFixing(offer) ==
    \/ Falsy(Get(offer, "dates", None)) \/ Strip(Get(offer, "dates", "")) = ""
    \/ Falsy(Get(offer, "destination", None)) \/ Strip(Get(offer, "destination", "")) = ""
    \/ Falsy(Get(offer, "price", None)) \/ Strip(Get(offer, "price", "")) = ""

\* known_destinations of extract_offer_details_from_html, in part
KnownDestinations == {"Turtsia", "Gartsia", "Italia", "Avstria", "Yordania", "Malta"}

\* extract_offer_details_from_html raises: a date text strptime rejects
ExtractRaises(page) ==
    \E k \in 1..Len(page.all_dates) : StrptimeRaises(page.all_dates[k])

\* offer['price'] after the price patterns
ExtractPrice(offer, page) ==
    IF page.price_match # "" THEN page.price_match \o " lv." ELSE offer.price

\* offer['dates'] after the two tries at the spans of the page
ExtractSpanDates(offer, page) ==
    IF ~(Falsy(offer.dates) \/ Strip(offer.dates) = "") \/ page.all_dates = <<>>
    THEN offer.dates
    ELSE LET parsed == {Strptime(page.all_dates[k]) : k \in 1..Len(page.all_dates)}
             first == CHOOSE d \in parsed : \A e \in parsed : d <= e
             last == CHOOSE d \in parsed : \A e \in parsed : d >= e
         IN  IF first # last THEN RangeText(first, last) ELSE DateText[first]

\* offer['dates'] after the return date of a single date is calculated
ExtractDates(offer, page) ==
    LET span_dates == ExtractSpanDates(offer, page)
    IN  IF /\ span_dates # ""
           /\ \E d \in Days : DateText[d] = span_dates
           /\ page.days > 1
        THEN span_dates \o " - " \o DateText[Strptime(span_dates) + page.days - 1]
        ELSE span_dates

\* offer['destination'] after the destination patterns
ExtractDestination(offer, page) ==
    LET known == {k \in 1..Len(page.title_dests) : page.title_dests[k] \in KnownDestinations}
    IN  IF known = {} THEN offer.destination
        ELSE page.title_dests[CHOOSE k \in known : \A j \in known : k <= j]

ExtractOfferDetailsFromHtml(offer, page) ==
    [title |-> offer.title, link |-> offer.link, price |-> ExtractPrice(offer, page),
     dates |-> ExtractDates(offer, page),
     destination |-> ExtractDestination(offer, page)]

\* offer_data after offer_data.update(...) of fetch_and_fix_offer
FetchAndFixOffer(offer_data, page) ==
    LET temp_offer == [title |-> Get(offer_data, "title", ""), link |-> offer_data.link,
                       price |-> "", dates |-> "", destination |-> ""]
        updated_offer == ExtractOfferDetailsFromHtml(temp_offer, page)
        fresh == [price |-> Get(updated_offer, "price", Get(offer_data, "price", "")),
                  dates |-> Get(updated_offer, "dates", Get(offer_data, "dates", "")),
                  destination |-> Get(updated_offer, "destination",
                                      Get(offer_data, "destination", ""))]
    IN  [key \in DOMAIN offer_data \cup DOMAIN fresh |->
            IF key \in DOMAIN fresh THEN fresh[key] ELSE offer_data[key]]

\* destination_fixes of fix_invalid_destinations; None stands for "extract
\* from the title"
DestinationFixes ==
    [d \in {"Tragvane Ot Varna", "Pochivki Malta", "Pochivki V Yordania"} |->
        CASE d = "Tragvane Ot Varna" -> None
          [] d = "Pochivki Malta" -> "Malta"
          [] d = "Pochivki V Yordania" -> "Yordania"]

\* known_countries of fix_invalid_destinations, in part and in order
KnownCountries ==
    <<[country |-> "Turtsia", keywords |-> {"Turtsia", "Antalia", "Bodrum"}],
      [country |-> "Gartsia", keywords |-> {"Gartsia"}],
      [country |-> "Malta", keywords |-> {"Malta"}],
      [country |-> "Egipet", keywords |-> {"Egipet", "Hurgada", "Kairo"}]>>

\* find_country_from_keywords
FindCountryFromKeywords(title) ==
    LET hits == {k \in DOMAIN KnownCountries :
                    \E word \in KnownCountries[k].keywords : TitleContains(title, word)}
    IN  IF hits = {} THEN None
        ELSE KnownCountries[CHOOSE k \in hits : \A j \in hits : k <= j].country

\* The multi-country cases of fix_invalid_destinations the titles reach.
MultiCountry(title) ==
    IF TitleContains(title, "Kairo") /\ TitleContains(title, "Hurgada") THEN "Egipet"
    ELSE IF TitleContains(title, "Gruzia") /\ TitleContains(title, "Armenia")
         THEN "Gruzia i Armenia"
         ELSE None

\* One offer after the loop body of fix_invalid_destinations.
FixDestination(offer) ==
    LET current_dest == Strip(Get(offer, "destination", ""))
        title == Get(offer, "title", "")
        by_keyword == FindCountryFromKeywords(title)
        by_fix == IF Falsy(by_keyword) /\ current_dest \in DOMAIN DestinationFixes
                  THEN DestinationFixes[current_dest] ELSE by_keyword
        new_destination == IF Falsy(by_fix) THEN MultiCountry(title) ELSE by_fix
    IN  IF current_dest # "" /\ current_dest \notin DOMAIN DestinationFixes THEN offer
        ELSE IF ~Falsy(new_destination) /\ new_destination # current_dest
             THEN [key \in DOMAIN offer \cup {"destination"} |->
                      IF key = "destination" THEN new_destination ELSE offer[key]]
             ELSE offer

\* The numbers a title gives with "dni" (days) or "noshtuvki" (nights),
\* in the order of the text
DurationMentions(title) ==
    CASE title = "Malta 5 dni / 4 noshtuvki" ->
            <<[number |-> 5, word |-> "dni"], [number |-> 4, word |-> "noshtuvki"]>>
      [] title = "Gruzia i Armenia 9 dni" -> <<[number |-> 9, word |-> "dni"]>>
      [] title = "Rim 4 noshtuvki" -> <<[number |-> 4, word |-> "noshtuvki"]>>
      [] title = "Rim 3 noshtuvki i kruiz 7 dni" ->
            <<[number |-> 3, word |-> "noshtuvki"], [number |-> 7, word |-> "dni"]>>
      [] OTHER -> <<>>

\* int(group 1) of the first "N dni" or "N noshtuvki" of the title; 0
\* when the title has none
StatedDays(title) ==
    IF DurationMentions(title) = <<>> THEN 0 ELSE DurationMentions(title)[1].number

\* Every text that splits at " - " into two texts strptime accepts, with
\* the two days it reads
RangeTexts ==
    UNION {{[text |-> first \o " - " \o last, range |-> r] :
                first \in DateForms(r[1]), last \in DateForms(r[2])} : r \in Days \X Days}

\* date_parts = dates.split(' - ') and the two strptime calls, as a table
RangeOfText == [text \in {t.text : t \in RangeTexts} |->
                   (CHOOSE t \in RangeTexts : t.text = text).range]

\* The days of a range text; empty when the text is no range
RangesOf(text) == IF text \in DOMAIN RangeOfText THEN {RangeOfText[text]} ELSE {}

\* dates splits at " - " into two texts strptime accepts
IsDateRange(text) == RangesOf(text) # {}

\* corrected_end = start_date + timedelta(days=stated_days - 1)
CorrectedEnd_TwoDaysLate(start_date, stated_days) == start_date + stated_days + 1

CorrectedEnd(start_date, stated_days) == start_date + stated_days - 1

\* corrected_dates of fix_date_inconsistencies for one offer; None when
\* the loop body leaves the offer alone
CorrectedDates(offer) ==
    LET date_text == Get(offer, "dates", "")
        title == Get(offer, "title", "")
    IN  IF Falsy(date_text) \/ ~IsDateRange(date_text) THEN None
        ELSE LET range == CHOOSE r \in RangesOf(date_text) : TRUE
                 actual_days == range[2] - range[1] + 1
                 stated_days == StatedDays(title)
                 diff == IF actual_days >= stated_days THEN actual_days - stated_days
                         ELSE stated_days - actual_days
             IN  IF stated_days # 0 /\ diff > 1 /\ stated_days > 1
                 THEN RangeText(range[1], CorrectedEnd(range[1], stated_days))
                 ELSE None

\* One offer after the loop body of fix_date_inconsistencies.
FixDates(offer) ==
    IF CorrectedDates(offer) = None THEN offer
    ELSE [offer EXCEPT !.dates = CorrectedDates(offer)]

AtStep(name) ==
    /\ fx_step \in DOMAIN MainSteps(fx_script)
    /\ MainSteps(fx_script)[fx_step] = name

MainReturned == fx_step = Len(MainSteps(fx_script)) + 1

FixerInit ==
    /\ fx_script \in FixerScripts
    /\ fx_step = 1
    /\ aratur_json \in {[exists |-> FALSE, offers |-> <<>>]}
           \cup {[exists |-> TRUE, offers |-> l] : l \in SeqsUpTo(FixerOffers, MaxFixOffers)}
    /\ backup_json = [exists |-> FALSE, offers |-> <<>>]
    /\ fx_offers = <<>>
    /\ fx_loaded = <<>>
    /\ fx_i = 1
    /\ fx_log = <<>>
    /\ fx_writes = <<>>
    /\ CrawlIdle /\ EnrichIdle /\ ScrapeIdle /\ PlaywrightIdle
       /\ DedupeIdle /\ LifecycleIdle /\ ProcessIdle /\ SaveIdle
       /\ DatefixIdle
       /\ DestfixIdle
       /\ RangeIdle

\* offers = load_offers(...); if not offers: return
FixerLoad ==
    /\ AtStep("load_offers")
    /\ LET loaded == IF aratur_json.exists THEN aratur_json.offers ELSE <<>>
       IN  /\ fx_offers' = loaded
           /\ fx_loaded' = loaded
           /\ fx_step' = IF loaded = <<>> THEN Len(MainSteps(fx_script)) + 1
                         ELSE fx_step + 1
    /\ UNCHANGED <<fx_script, aratur_json, backup_json, fx_i, fx_log, fx_writes>>
    /\ UNCHANGED fixerOthers

\* save_offers(offers, backup_path)
FixerBackup ==
    /\ AtStep("save_backup")
    /\ backup_json' = [exists |-> TRUE, offers |-> fx_offers]
    /\ fx_writes' = Append(fx_writes, "backup")
    /\ fx_step' = fx_step + 1
    /\ UNCHANGED <<fx_script, aratur_json, fx_offers, fx_loaded, fx_i, fx_log>>
    /\ UNCHANGED fixerOthers

\* fix_offers_with_fresh_data, an offer that is already complete
FixOfferComplete ==
    /\ AtStep("fix_offers_with_fresh_data")
    /\ fx_i <= Len(fx_offers)
    /\ ~NeedsFixing(fx_offers[fx_i])
    /\ fx_log' = Append(fx_log, [outcome |-> "complete", page |-> NothingFound])
    /\ fx_i' = fx_i + 1
    /\ UNCHANGED <<fx_script, fx_step, aratur_json, backup_json, fx_offers, fx_loaded,
                   fx_writes>>
    /\ UNCHANGED fixerOthers

\* fetch_and_fix_offer of an offer without a link
FixOfferNoLink ==
    /\ AtStep("fix_offers_with_fresh_data")
    /\ fx_i <= Len(fx_offers)
    /\ NeedsFixing(fx_offers[fx_i])
    /\ Get(fx_offers[fx_i], "link", "") = ""
    /\ fx_log' = Append(fx_log, [outcome |-> "no_link", page |-> NothingFound])
    /\ fx_i' = fx_i + 1
    /\ UNCHANGED <<fx_script, fx_step, aratur_json, backup_json, fx_offers, fx_loaded,
                   fx_writes>>
    /\ UNCHANGED fixerOthers

\* fetch_and_fix_offer, session.get or response.text raises
FixOfferFetchRaises ==
    /\ AtStep("fix_offers_with_fresh_data")
    /\ fx_i <= Len(fx_offers)
    /\ NeedsFixing(fx_offers[fx_i])
    /\ Get(fx_offers[fx_i], "link", "") # ""
    /\ fx_log' = Append(fx_log, [outcome |-> "fetch_raised", page |-> NothingFound])
    /\ fx_i' = fx_i + 1
    /\ UNCHANGED <<fx_script, fx_step, aratur_json, backup_json, fx_offers, fx_loaded,
                   fx_writes>>
    /\ UNCHANGED fixerOthers

\* fetch_and_fix_offer, the page arrived
FixOfferFetched ==
    /\ AtStep("fix_offers_with_fresh_data")
    /\ fx_i <= Len(fx_offers)
    /\ NeedsFixing(fx_offers[fx_i])
    /\ Get(fx_offers[fx_i], "link", "") # ""
    /\ \E page \in Pages :
        IF ExtractRaises(page)
        THEN /\ fx_log' = Append(fx_log, [outcome |-> "extract_raised", page |-> page])
             /\ UNCHANGED fx_offers
        ELSE /\ fx_log' = Append(fx_log, [outcome |-> "updated", page |-> page])
             /\ fx_offers' = [fx_offers EXCEPT ![fx_i] = FetchAndFixOffer(@, page)]
    /\ fx_i' = fx_i + 1
    /\ UNCHANGED <<fx_script, fx_step, aratur_json, backup_json, fx_loaded, fx_writes>>
    /\ UNCHANGED fixerOthers

\* fix_offers_with_fresh_data returns
FixOffersReturn ==
    /\ AtStep("fix_offers_with_fresh_data")
    /\ fx_i > Len(fx_offers)
    /\ fx_step' = fx_step + 1
    /\ UNCHANGED <<fx_script, aratur_json, backup_json, fx_offers, fx_loaded, fx_i, fx_log,
                   fx_writes>>
    /\ UNCHANGED fixerOthers

\* fix_invalid_destinations(offers)
FixInvalidDestinations ==
    /\ AtStep("fix_invalid_destinations")
    /\ fx_offers' = [k \in 1..Len(fx_offers) |-> FixDestination(fx_offers[k])]
    /\ fx_step' = fx_step + 1
    /\ UNCHANGED <<fx_script, aratur_json, backup_json, fx_loaded, fx_i, fx_log, fx_writes>>
    /\ UNCHANGED fixerOthers

\* fix_date_inconsistencies(offers)
FixDateInconsistencies ==
    /\ AtStep("fix_date_inconsistencies")
    /\ fx_offers' = [k \in 1..Len(fx_offers) |-> FixDates(fx_offers[k])]
    /\ fx_step' = fx_step + 1
    /\ UNCHANGED <<fx_script, aratur_json, backup_json, fx_loaded, fx_i, fx_log, fx_writes>>
    /\ UNCHANGED fixerOthers

\* review_suspicious_prices(offers) only prints
ReviewSuspiciousPrices ==
    /\ AtStep("review_suspicious_prices")
    /\ fx_step' = fx_step + 1
    /\ UNCHANGED <<fx_script, aratur_json, backup_json, fx_offers, fx_loaded, fx_i, fx_log,
                   fx_writes>>
    /\ UNCHANGED fixerOthers

\* save_offers(offers, "aratur.json")
FixerSave ==
    /\ AtStep("save_offers")
    /\ aratur_json' = [exists |-> TRUE, offers |-> fx_offers]
    /\ fx_writes' = Append(fx_writes, "aratur.json")
    /\ fx_step' = fx_step + 1
    /\ UNCHANGED <<fx_script, backup_json, fx_offers, fx_loaded, fx_i, fx_log>>
    /\ UNCHANGED fixerOthers

FixerNext ==
    \/ FixerLoad
    \/ FixerBackup
    \/ FixOfferComplete
    \/ FixOfferNoLink
    \/ FixOfferFetchRaises
    \/ FixOfferFetched
    \/ FixOffersReturn
    \/ FixInvalidDestinations
    \/ FixDateInconsistencies
    \/ ReviewSuspiciousPrices
    \/ FixerSave

SpecFixer == FixerInit /\ [][FixerNext]_vars

(***************************************************************************)
(* fix_final_issues.fix_date_inconsistencies and                           *)
(* analyze_aratur_data.analyze_date_consistency                            *)
(*                                                                         *)
(* The fixer runs on a list of offers, the analyzer runs on the result,    *)
(* and the fixer runs once more.  The offers have the title and dates the  *)
(* Aratour scraper saves and no description.                               *)
(***************************************************************************)

\* Longest list of offers given to the fixer.
MaxDateFixOffers == 2

\* Titles with the days wording, the nights wording, both, and neither.
DateFixTitles ==
    {"Malta 5 dni / 4 noshtuvki", "Gruzia i Armenia 9 dni", "Rim 4 noshtuvki",
     "Rim 3 noshtuvki i kruiz 7 dni", "Ranni zapisvania"}

\* The dates of an offer: none, a single date, ranges as strftime writes
\* them and without leading zeros, a range that runs backwards, and a
\* range whose second date does not exist.
DateFixDates ==
    {"", "01.06.2026", "01.06.2026 - 05.06.2026", "1.06.2026 - 3.06.2026",
     "01.06.2026 - 07.06.2026", "03.06.2026 - 01.06.2026", "01.06.2026 - 31.02.2026"}

DateFixOffers == [title : DateFixTitles, dates : DateFixDates]

\* '-' in dates, for the texts of the model
HasDash(text) == IsDateRange(text) \/ text = "01.06.2026 - 31.02.2026"

\* duration_days of analyze_date_consistency: the first number with
\* "dni", else the first number with "noshtuvki" plus one; 0 stands for
\* None
DurationDays(offer) ==
    LET text == DurationMentions(Get(offer, "title", ""))
                    \o DurationMentions(Get(offer, "description", ""))
        days == {k \in DOMAIN text : text[k].word = "dni"}
        nights == {k \in DOMAIN text : text[k].word = "noshtuvki"}
    IN  IF days # {} THEN text[CHOOSE k \in days : \A j \in days : k <= j].number
        ELSE IF nights # {}
             THEN text[CHOOSE k \in nights : \A j \in nights : k <= j].number + 1
             ELSE 0

\* round_trip_keywords of analyze_date_consistency, in part
RoundTripKeywords == {"ekskurzia", "tur", "kruiz"}

\* The list analyze_date_consistency puts an offer in.
DateConsistency(offer) ==
    LET date_text == Strip(Get(offer, "dates", ""))
        duration_days == DurationDays(offer)
        range == CHOOSE r \in RangesOf(date_text) : TRUE
        actual_days == range[2] - range[1] + 1
        diff == IF actual_days >= duration_days THEN actual_days - duration_days
                ELSE duration_days - actual_days
    IN  IF /\ date_text # "" /\ ~HasDash(date_text) /\ duration_days > 1
           /\ \E keyword \in RoundTripKeywords :
                 TitleContains(Get(offer, "title", ""), keyword)
        THEN "single_date_multi_day"
        ELSE IF /\ HasDash(date_text) /\ IsDateRange(date_text)
                /\ duration_days # 0 /\ diff > 1
             THEN "inconsistent_ranges"
             ELSE "valid_date_consistency"

\* issues of analyze_date_consistency, each list as the set of its indices
AnalyzeDateConsistency(offer_list) ==
    [list \in {"single_date_multi_day", "inconsistent_ranges", "valid_date_consistency"} |->
        {k \in 1..Len(offer_list) : DateConsistency(offer_list[k]) = list}]

\* fixed_count of fix_date_inconsistencies
FixedCount(offer_list) == Cardinality({k \in 1..Len(offer_list) : CorrectedDates(offer_list[k]) # None})

DateFixInit ==
    /\ df_pc = "loaded"
    /\ df_offers \in SeqsUpTo(DateFixOffers, MaxDateFixOffers)
    /\ df_fixed = <<>>
    /\ df_fixed_count = 0
    /\ df_issues = [single_date_multi_day |-> {}, inconsistent_ranges |-> {},
                    valid_date_consistency |-> {}]
    /\ df_again = <<>>
    /\ df_again_count = 0
    /\ CrawlIdle /\ EnrichIdle /\ ScrapeIdle /\ PlaywrightIdle
       /\ DedupeIdle /\ LifecycleIdle /\ ProcessIdle /\ SaveIdle
       /\ FixerIdle
       /\ DestfixIdle
       /\ RangeIdle

\* fix_date_inconsistencies(offers)
DateFixFirst ==
    /\ df_pc = "loaded"
    /\ df_fixed' = [k \in 1..Len(df_offers) |-> FixDates(df_offers[k])]
    /\ df_fixed_count' = FixedCount(df_offers)
    /\ df_pc' = "fixed"
    /\ UNCHANGED <<df_offers, df_issues, df_again, df_again_count>>
    /\ UNCHANGED datefixOthers

\* analyze_date_consistency(offers) on the fixed offers
DateFixAnalyze ==
    /\ df_pc = "fixed"
    /\ df_issues' = AnalyzeDateConsistency(df_fixed)
    /\ df_pc' = "analyzed"
    /\ UNCHANGED <<df_offers, df_fixed, df_fixed_count, df_again, df_again_count>>
    /\ UNCHANGED datefixOthers

\* fix_date_inconsistencies(offers) once more
DateFixSecond ==
    /\ df_pc = "analyzed"
    /\ df_again' = [k \in 1..Len(df_fixed) |-> FixDates(df_fixed[k])]
    /\ df_again_count' = FixedCount(df_fixed)
    /\ df_pc' = "fixed_again"
    /\ UNCHANGED <<df_offers, df_fixed, df_fixed_count, df_issues>>
    /\ UNCHANGED datefixOthers

DateFixNext ==
    \/ DateFixFirst
    \/ DateFixAnalyze
    \/ DateFixSecond

SpecDateFix == DateFixInit /\ [][DateFixNext]_vars

(***************************************************************************)
(* fix_aratur_issues.fix_invalid_destinations and                          *)
(* analyze_aratur_data.analyze_offer_destinations                          *)
(*                                                                         *)
(* The analyzer and the fixer run on the same offers.                      *)
(***************************************************************************)

\* Longest list of offers given to the two functions.
MaxDestFixOffers == 2

\* Destinations: empty, blank, two of known_destinations ("Avstria" has
\* the letter of the one-letter keyword in it), a promotion heading, and
\* a place outside known_destinations.
DestFixDestinations ==
    {"", " ", "Malta", "Avstria", "Ranni zapisvania", "Madeira"}

\* The offers: with a destination, and without the key as the scraper
\* saves them.
DestFixOffers ==
    {[link |-> "link"]} \cup [link : {"link"}, destination : DestFixDestinations]

\* invalid_keywords of both functions, in part
InvalidKeywords == {"partnership", "tour", "ranni", "zapisvan", "ot", "do", "v"}

\* keyword in dest_lower
DestinationContains(destination, keyword) ==
    \/ destination = "Avstria" /\ keyword = "v"
    \/ destination = "Ranni zapisvania" /\ keyword \in {"ranni", "zapisvan", "v"}

\* any(keyword in dest_lower for keyword in invalid_keywords)
HasInvalidKeyword(destination) ==
    \E keyword \in InvalidKeywords : DestinationContains(destination, keyword)

\* The list analyze_offer_destinations puts an offer in.
DestinationIssue(offer) ==
    LET destination == Strip(Get(offer, "destination", ""))
    IN  IF Falsy(destination) THEN "empty_destinations"
        ELSE IF destination \notin KnownDestinations
             THEN IF HasInvalidKeyword(destination) THEN "invalid_destinations"
                  ELSE "valid_destinations"
             ELSE "valid_destinations"

\* issues of analyze_offer_destinations, each list as the set of its
\* indices
AnalyzeOfferDestinations(offer_list) ==
    [list \in {"empty_destinations", "invalid_destinations", "valid_destinations"} |->
        {k \in 1..Len(offer_list) : DestinationIssue(offer_list[k]) = list}]

\* fix_invalid_destinations clears the destination of the offer
ClearsDestination(offer) ==
    LET destination == Strip(Get(offer, "destination", ""))
    IN  ~Falsy(destination) /\ HasInvalidKeyword(destination)

\* One offer after the loop body of fix_aratur_issues.fix_invalid_destinations.
ClearInvalidDestination(offer) ==
    IF ClearsDestination(offer) THEN [offer EXCEPT !.destination = ""] ELSE offer

DestFixInit ==
    /\ ds_pc = "loaded"
    /\ ds_offers \in SeqsUpTo(DestFixOffers, MaxDestFixOffers)
    /\ ds_issues = [empty_destinations |-> {}, invalid_destinations |-> {},
                    valid_destinations |-> {}]
    /\ ds_fixed = <<>>
    /\ ds_fixed_count = 0
    /\ CrawlIdle /\ EnrichIdle /\ ScrapeIdle /\ PlaywrightIdle
       /\ DedupeIdle /\ LifecycleIdle /\ ProcessIdle /\ SaveIdle
       /\ FixerIdle /\ DatefixIdle
       /\ RangeIdle

\* analyze_offer_destinations(offers)
DestFixAnalyze ==
    /\ ds_pc = "loaded"
    /\ ds_issues' = AnalyzeOfferDestinations(ds_offers)
    /\ ds_pc' = "analyzed"
    /\ UNCHANGED <<ds_offers, ds_fixed, ds_fixed_count>>
    /\ UNCHANGED destfixOthers

\* fix_invalid_destinations(offers)
DestFixClear ==
    /\ ds_pc = "analyzed"
    /\ ds_fixed' = [k \in 1..Len(ds_offers) |-> ClearInvalidDestination(ds_offers[k])]
    /\ ds_fixed_count' = Cardinality({k \in 1..Len(ds_offers) : ClearsDestination(ds_offers[k])})
    /\ ds_pc' = "fixed"
    /\ UNCHANGED <<ds_offers, ds_issues>>
    /\ UNCHANGED destfixOthers

DestFixNext ==
    \/ DestFixAnalyze
    \/ DestFixClear

SpecDestFix == DestFixInit /\ [][DestFixNext]_vars

(***************************************************************************)
(* Date-range building: AventuraScraper.parse_dates,                       *)
(* AngelTravelScraper.fetch_dates_from_url,                                *)
(* DariTourScraper.extract_offers_from_page and                            *)
(* extract_offer_details_from_html of fix_aratur_issues                    *)
(*                                                                         *)
(* Each builder gets the date texts its regular expression found in the    *)
(* text, in text order.                                                    *)
(***************************************************************************)

\* Most date texts found in one text.
MaxFoundDates == 3

RangeBuilders == {"aventura", "angeltravel", "daritour", "fix_aratur_issues"}

\* What \d{1,2}\.\d{1,2}\.\d{4} finds: dates with and without the leading
\* zero, a day that the month does not have, and a day and month out of
\* range.
FoundTexts == {"01.06.2026", "03.06.2026", "5.06.2026", "31.02.2026", "45.13.2026"}

\* 1 <= day <= 31 and 1 <= month <= 12 and 2000 <= year <= 2100
PassesRangeTest(text) == text # "45.13.2026"

\* f"{day:02d}.{month:02d}.{year}"
WithLeadingZeros(text) == IF StrptimeRaises(text) THEN text ELSE DateText[Strptime(text)]

\* s without the elements that fail the test, in order
RECURSIVE NormList(_)
NormList(s) ==
    IF s = <<>> THEN <<>>
    ELSE IF PassesRangeTest(Head(s))
         THEN <<WithLeadingZeros(Head(s))>> \o NormList(Tail(s))
         ELSE NormList(Tail(s))

\* s without repeated elements, first occurrences kept
RECURSIVE UniqueDates(_)
UniqueDates(s) ==
    IF s = <<>> THEN <<>>
    ELSE LET front == UniqueDates(SubSeq(s, 1, Len(s) - 1))
         IN  IF s[Len(s)] \in Range(front) THEN front ELSE Append(front, s[Len(s)])

\* a strptime call on one of the texts raises
AnyRaises(texts) == \E k \in 1..Len(texts) : StrptimeRaises(texts[k])

\* parsed_dates[0] and parsed_dates[-1] after the sort, formatted as a
\* range
SortedRange(texts) ==
    LET parsed == {Strptime(texts[k]) : k \in 1..Len(texts)}
        first == CHOOSE d \in parsed : \A e \in parsed : d <= e
        last == CHOOSE d \in parsed : \A e \in parsed : d >= e
    IN  RangeText(first, last)

\* AventuraScraper.parse_dates
AventuraParseDates(found) ==
    LET norm == NormList(found)
    IN  IF norm = <<>> THEN [raised |-> FALSE, dates |-> ""]
        ELSE IF AnyRaises(norm) THEN [raised |-> TRUE, dates |-> ""]
             ELSE [raised |-> FALSE, dates |-> SortedRange(norm)]

\* The except branch of fetch_dates_from_url: the first and the last text
AngelTravelFallback(unique_dates) ==
    unique_dates[1] \o " - " \o unique_dates[Len(unique_dates)]

\* AngelTravelScraper.fetch_dates_from_url, the dates of the main page
AngelTravelDates(found) ==
    LET unique_dates == UniqueDates(found)
    IN  [raised |-> FALSE,
         dates |-> IF found = <<>> THEN ""
                   ELSE IF Len(unique_dates) = 1 THEN unique_dates[1]
                        ELSE IF AnyRaises(unique_dates)
                             THEN AngelTravelFallback(unique_dates)
                             ELSE SortedRange(unique_dates)]

\* DariTourScraper.extract_offers_from_page, offer.dates
DariTourDates(found) ==
    [raised |-> FALSE,
     dates |-> IF found = <<>> THEN ""
               ELSE IF Len(found) = 1 THEN found[1]
                    ELSE IF AnyRaises(found) THEN found[1] ELSE SortedRange(found)]

\* extract_offer_details_from_html, offer['dates'] after the span with
\* the dates
FixAraturDates(found) ==
    LET page == [price_match |-> "", all_dates |-> found, days |-> 0, title_dests |-> <<>>]
    IN  IF ExtractRaises(page) THEN [raised |-> TRUE, dates |-> ""]
        ELSE [raised |-> FALSE, dates |-> ExtractSpanDates([dates |-> ""], page)]

BuildRange(builder, found) ==
    CASE builder = "aventura" -> AventuraParseDates(found)
      [] builder = "angeltravel" -> AngelTravelDates(found)
      [] builder = "daritour" -> DariTourDates(found)
      [] builder = "fix_aratur_issues" -> FixAraturDates(found)

RangeInit ==
    /\ rg_pc = "found"
    /\ rg_builder \in RangeBuilders
    /\ rg_found \in SeqsUpTo(FoundTexts, MaxFoundDates)
    /\ rg_emitted = ""
    /\ rg_raised = FALSE
    /\ CrawlIdle /\ EnrichIdle /\ ScrapeIdle /\ PlaywrightIdle
       /\ DedupeIdle /\ LifecycleIdle /\ ProcessIdle /\ SaveIdle
       /\ FixerIdle /\ DatefixIdle /\ DestfixIdle

\* The builder runs and every strptime call returns.
RangeBuilt ==
    /\ rg_pc = "found"
    /\ ~BuildRange(rg_builder, rg_found).raised
    /\ rg_emitted' = BuildRange(rg_builder, rg_found).dates
    /\ rg_pc' = "built"
    /\ UNCHANGED <<rg_builder, rg_found, rg_raised>>
    /\ UNCHANGED rangeOthers

\* The builder runs and a strptime call outside a try block raises.
RangeRaised ==
    /\ rg_pc = "found"
    /\ BuildRange(rg_builder, rg_found).raised
    /\ rg_raised' = TRUE
    /\ rg_pc' = "built"
    /\ UNCHANGED <<rg_builder, rg_found, rg_emitted>>
    /\ UNCHANGED rangeOthers

RangeNext ==
    \/ RangeBuilt
    \/ RangeRaised

SpecRange == RangeInit /\ [][RangeNext]_vars

(***************************************************************************)
(* Claims about discover_listing_pages                                     *)
(***************************************************************************)

\* C5: in every reachable state of the crawl no URL has been fetched more
\* than once, no URL is in the queue twice, no URL is both visited and
\* queued, and the visited URLs plus the queued URLs number at most 300.
C5_CrawlInvariant ==
    /\ fetchCount = Cardinality(fetchedUrls)
    /\ Cardinality(Range(queue)) = Len(queue)
    /\ Range(queue) \cap visited = {}
    /\ Cardinality(visited) + Len(queue) <= QueueCap

\* C5 witness: the cap is reached with pages fetched and more still queued.
C5_Witness ==
    /\ Cardinality(visited) + Len(queue) = QueueCap
    /\ fetchCount > 1
    /\ Len(queue) > 1

\* C6: the crawl terminates (the loop is left and the result assigned) for
\* every link graph and every mix of failed and successful fetches, and it
\* never fetches more than 300 pages.
C6_CrawlTerminates ==
    /\ <>(cr_pc = "done")
    /\ [](fetchCount <= QueueCap)

\* C6 witness: a crawl that ended after fetching 300 pages.
C6_Witness == cr_pc = "done" /\ fetchCount = QueueCap

\* C7: with max_pages >= 1 the returned list has no duplicates, has at most
\* max_pages URLs, contains the homepage and contains no offer-detail URL.
C7_ReturnedListings ==
    cr_pc = "done" =>
        /\ Cardinality(Range(discovered_listing_pages)) = Len(discovered_listing_pages)
        /\ Len(discovered_listing_pages) <= max_pages
        /\ start_url \in Range(discovered_listing_pages)
        /\ \A u \in Range(discovered_listing_pages) : ~IsOfferDetailUrl(u)

\* C7 witness: max_pages listing pages were found, none of them the
\* homepage, so the homepage is put in front and the list is cut.
C7_Witness ==
    /\ cr_pc = "done"
    /\ Len(listings) = max_pages
    /\ start_url \notin Range(listings)

(***************************************************************************)
(* Claims about enrich_offers_with_dates                                   *)
(***************************************************************************)

\* The batches (by number) an offer was put in.
BatchesOf(o) == {k \in 1..Len(batches) : o \in Range(batches[k])}

\* The result loop of lines 507-514 has run for the offer's batch.
HttpCollected(o) ==
    \E k \in BatchesOf(o) : k < Len(batches) \/ en_pc # "http_wait"

\* C8: at every moment the number of browser pages opened for the fallback
\* and not yet closed is at most pw_concurrency.
C8_OpenPagesWithinConcurrency == open_pages <= pw_concurrency

\* C9: an offer is handed to the fallback if and only if its HTTP result is
\* not a tuple with both dates, and no fallback task of a batch exists
\* before every HTTP fetch of that batch has finished.
C9_FallbackIffHttpFailed ==
    \A o \in Offers :
        /\ pw_state[o] # "idle" =>
               /\ http_state[o] = "done"
               /\ ~IsSuccess(http_results[o])
               /\ \A k \in BatchesOf(o) : \A o2 \in Range(batches[k]) : http_state[o2] = "done"
        /\ (HttpCollected(o) /\ ~IsSuccess(http_results[o])) => pw_state[o] # "idle"

\* C9 witness: in one batch an offer is in the fallback, with its page open,
\* and another offer got both dates over HTTP and has no fallback task.
C9_Witness ==
    \E o1 \in Range(batch), o2 \in Range(batch) :
        /\ pw_state[o1] = "page"
        /\ IsSuccess(http_results[o2])
        /\ pw_state[o2] = "idle"
        /\ dates[o2] = DatesOf(http_results[o2])

\* The offer's HTTP task or fallback task has been created.
FetchStarted(o) == http_state[o] # "idle" \/ pw_state[o] # "idle"

\* The offer's HTTP fetch has ended, and so has its fallback if it needed one.
FetchesFinished(o) ==
    /\ http_state[o] = "done"
    /\ IF IsSuccess(http_results[o]) THEN pw_state[o] = "idle" ELSE pw_state[o] = "done"

\* C10: batches run strictly one after another (no fetch of a later batch
\* starts before every HTTP and fallback fetch of an earlier batch has
\* finished), at most batch_size HTTP fetches are in flight, and every
\* offer belongs to exactly one batch.
C10_BatchesSequential ==
    /\ \A k1 \in 1..Len(batches), k2 \in 1..Len(batches) :
          k1 < k2 =>
             \A o1 \in Range(batches[k1]), o2 \in Range(batches[k2]) :
                FetchStarted(o2) => FetchesFinished(o1)
    /\ Cardinality({o \in Offers : http_state[o] \in {"pending", "running"}}) <= batch_size
    /\ \A o \in Offers : Cardinality(BatchesOf(o)) <= 1
    /\ en_pc = "done" => \A o \in Offers : Cardinality(BatchesOf(o)) = 1

\* C10 witness: a fetch of the second batch is in flight after an offer of
\* the first batch went through the fallback.
C10_Witness ==
    /\ Len(batches) >= 2
    /\ \E o1 \in Range(batches[1]), o2 \in Range(batches[2]) :
          /\ pw_state[o1] = "done"
          /\ http_state[o2] = "running"

\* The result holds both a first and a last date.
BothDates(result) == result.kind = "tuple" /\ result.first >= 1 /\ result.last >= 1

\* What the claim lets offer o's dates be once the results are in.
ExpectedDates(o) ==
    IF BothDates(http_results[o]) THEN <<http_results[o].first, http_results[o].last>>
    ELSE IF BothDates(pw_results[o]) THEN <<pw_results[o].first, pw_results[o].last>>
    ELSE OriginalDates

\* C11: enrich_offers_with_dates returns the same offers in the same order;
\* dates is 'first - last' exactly for an offer whose HTTP path or fallback
\* produced both dates, and every other offer keeps the dates it had before.
C11_EnrichFrame ==
    /\ \A o \in Offers :
          \/ dates[o] = OriginalDates
          \/ /\ dates[o] = ExpectedDates(o)
             /\ BothDates(http_results[o]) \/ BothDates(pw_results[o])
    /\ en_pc = "done" =>
          /\ Len(enriched_offers) = total
          /\ \A o \in Offers :
                /\ enriched_offers[o].link = o
                /\ enriched_offers[o].dates = ExpectedDates(o)

\* C11 witness: three offers came back, one with dates from HTTP, one with
\* dates from the fallback after HTTP returned (None, None), and one that
\* kept its dates after its HTTP fetch raised and its fallback found nothing.
C11_Witness ==
    /\ en_pc = "done"
    /\ total = 3
    /\ \E o1, o2, o3 \in Offers :
          /\ BothDates(http_results[o1])
          /\ enriched_offers[o1].dates # OriginalDates
          /\ http_results[o2] = NoDates
          /\ BothDates(pw_results[o2])
          /\ enriched_offers[o2].dates # OriginalDates
          /\ http_results[o3] = RaisedException
          /\ pw_results[o3] = NoDates
          /\ enriched_offers[o3].dates = OriginalDates

(***************************************************************************)
(* Claims about the limit of the aiohttp scrapers                          *)
(***************************************************************************)

\* C1: for any limit L >= 1, after AventuraScraper.scrape_offers the number
\* of offers in self.offers is at most L.
C1_AventuraWithinLimit ==
    (scraper = "aventura" /\ sc_pc = "done" /\ limit >= 1) => Len(offers) <= limit

\* C2: for any limit L >= 1, after scrape_offers of LuxtravelScraper or
\* ProfitoursScraper the number of offers in self.offers is at most L.
C2_SinglePageWithinLimit ==
    (scraper \in {"luxtravel", "profitours"} /\ sc_pc = "done" /\ limit >= 1) =>
        Len(offers) <= limit

(***************************************************************************)
(* Claims about the limit of the Playwright scrapers                       *)
(***************************************************************************)

\* C3: for any limit L >= 1 the list BohemiaScraper.scrape or
\* TeztourScraper.scrape returns has at most L offers, and in Bohemia no
\* destination is scraped once L offers are collected and no offer beyond
\* the remaining quota is enriched.
C3_PlaywrightWithinLimit ==
    pl_limit >= 1 =>
        /\ pl_pc = "done" => Len(returned) <= pl_limit
        /\ pl_scraper = "bohemia" =>
               \A k \in 1..Len(scrape_log) :
                  /\ scrape_log[k].before < pl_limit
                  /\ scrape_log[k].enriched <= pl_limit - scrape_log[k].before

\* C3 witness: Bohemia returned exactly L offers, cut a destination page
\* down to the remaining quota before enriching it, and left a destination
\* unscraped.
C3_Witness ==
    /\ pl_scraper = "bohemia"
    /\ pl_pc = "done"
    /\ pl_limit >= 1
    /\ Len(returned) = pl_limit
    /\ dest_i < n_destinations
    /\ \E k \in 1..Len(scrape_log) :
          /\ scrape_log[k].enriched > 0
          /\ scrape_log[k].found > scrape_log[k].enriched

(***************************************************************************)
(* Claims about the duplicate removal                                      *)
(***************************************************************************)

\* The (title, link) pair of an offer, as the claim names it.
TitleLink(offer) == <<offer.title, offer.link>>

\* The positions of the input whose (title, link) pair has not occurred
\* at an earlier position.
FirstOccurrences ==
    {i \in 1..Len(dd_offers) :
        \A j \in 1..(i - 1) : TitleLink(dd_offers[j]) # TitleLink(dd_offers[i])}

\* The k-th smallest first-occurrence position.
KthFirstOccurrence(k) ==
    CHOOSE i \in FirstOccurrences : Cardinality({j \in FirstOccurrences : j <= i}) = k

\* C4: after the duplicate removal no two kept offers share a
\* (title, link) pair, every pair of the input list appears exactly once,
\* and the kept offers are the first occurrences in their original order.
C4_DedupeKeepsFirstOccurrences ==
    dd_pc = "done" =>
        /\ \A a, b \in 1..Len(unique_offers) :
               TitleLink(unique_offers[a]) = TitleLink(unique_offers[b]) => a = b
        /\ \A i \in 1..Len(dd_offers) :
               Cardinality({a \in 1..Len(unique_offers) :
                              TitleLink(unique_offers[a]) = TitleLink(dd_offers[i])}) = 1
        /\ Len(unique_offers) = Cardinality(FirstOccurrences)
        /\ \A k \in 1..Len(unique_offers) :
               unique_offers[k] = dd_offers[KthFirstOccurrence(k)]

\* C4 witness: the input repeated a (title, link) pair with another price
\* between two distinct pairs, and the removal is done.
C4_Witness ==
    /\ dd_pc = "done"
    /\ Len(dd_offers) = 3
    /\ TitleLink(dd_offers[1]) = TitleLink(dd_offers[3])
    /\ dd_offers[1] # dd_offers[3]
    /\ TitleLink(dd_offers[1]) # TitleLink(dd_offers[2])
    /\ dd_offers[1].link = dd_offers[2].link
    /\ Len(unique_offers) = 2

(***************************************************************************)
(* Claims about the browser session of PlaywrightScraperBase               *)
(***************************************************************************)

ProcessReturned == pf_pc \in {"returned", "insert", "db_done", "db_raised"}

\* The position of the first offer of file f that makes standardize_offer
\* raise, or one past the end of the file.
RECURSIVE FirstRaising(_, _)
FirstRaising(f, k) ==
    IF k > Len(disk[f].data) \/ StandardizeRaises(disk[f].data[k]) THEN k
    ELSE FirstRaising(f, k + 1)

\* The offer at position k of file f is valid once standardized.
ValidAt(f, k) ==
    IsValidTravelOffer(StandardizeOffer(disk[f].data[k], <<f, k>>,
                                        AgencyOf(file_paths[f]), 0))

\* The links of the valid offers of files f.., positions k.., that come
\* before an error of their file, in file order.
RECURSIVE ValidLinksFrom(_, _)
ValidLinksFrom(f, k) ==
    IF f > Len(file_paths) THEN <<>>
    ELSE IF disk[f].status # "ok" \/ k >= FirstRaising(f, 1) THEN ValidLinksFrom(f + 1, 1)
    ELSE (IF ValidAt(f, k) THEN <<(<<f, k>>)>> ELSE <<>>) \o ValidLinksFrom(f, k + 1)

\* C13: an error while reading or standardizing one file never aborts
\* process_files: every later file is still processed and its valid offers
\* are in the returned list, in file order.
C13_ErrorsDoNotAbort ==
    ProcessReturned =>
        [k \in 1..Len(unified_offers) |-> unified_offers[k].link] = ValidLinksFrom(1, 1)

\* C13 witness: the first file was unreadable or held an offer that made
\* standardize_offer raise, and a valid offer of the second file was returned.
C13_Witness ==
    /\ ProcessReturned
    /\ Len(file_paths) = 2
    /\ \/ disk[1].status # "ok"
       \/ FirstRaising(1, 1) <= Len(disk[1].data)
    /\ \E k \in 1..Len(unified_offers) : unified_offers[k].link[1] = 2

\* C14: no offer of the unified list has price_eur None or 0, and an input
\* offer whose price cannot be parsed or converted is not in the list.
C14_PriceEurPresent ==
    /\ \A k \in 1..Len(unified_offers) :
          /\ unified_offers[k].price_eur # NonePrice
          /\ unified_offers[k].price_eur # 0
    /\ \A f \in 1..Len(disk) : \A k \in 1..Len(disk[f].data) :
          ParsePrice(disk[f].data[k].price, AgencyOf(file_paths[f])) = NonePrice =>
              \A j \in 1..Len(unified_offers) : unified_offers[j].link # <<f, k>>

\* C14 witness: a file with an offer whose price did not parse and an
\* offer with a price in leva was processed, and the second one is in the
\* returned list with its converted price.
C14_Witness ==
    /\ ProcessReturned
    /\ \E f \in 1..Len(disk) :
          /\ Len(disk[f].data) = 2
          /\ disk[f].data[1].title = GoodTitle
          /\ disk[f].data[1].price.mark = ""
          /\ disk[f].data[2].price.mark = "lv"
          /\ \E j \in 1..Len(unified_offers) :
                /\ unified_offers[j].link = <<f, 2>>
                /\ unified_offers[j].price_eur = 102

\* The scraped record a unified offer was made from.
ScrapedRecordOf(offer) == disk[offer.link[1]].data[offer.link[2]]

\* C16: for every scraped record whose scraped_at is a non-empty
\* timestamp, the unified offer made from it has that scraped_at.
C16_ScrapedAtCarried ==
    \A k \in 1..Len(unified_offers) :
        ScrapedRecordOf(unified_offers[k]).scraped_at # "" =>
            unified_offers[k].scraped_at = ScrapedRecordOf(unified_offers[k]).scraped_at

\* C17: on a unified_offers.json written by process_offers, create_db runs
\* to completion, and afterwards the table holds exactly one row per offer
\* of the file and no row of an earlier run.
C17_CreateDbLoadsFile ==
    /\ pf_pc # "db_raised"
    /\ pf_pc = "db_done" =>
          /\ table = {[id |-> unified_json[k].id, link |-> unified_json[k].link] :
                        k \in 1..Len(unified_json)}
          /\ Cardinality(table) = Len(unified_json)

(***************************************************************************)
(* Claims about the records the scrapers write                             *)
(***************************************************************************)

\* C15: every record a scraper writes to its output file has the six
\* fields title, link, price, dates, destination and scraped_at, for all
\* eight agencies.
C15_SixFields ==
    sv_pc = "saved" =>
        \A k \in 1..Len(output_json) :
            DOMAIN output_json[k] =
                {"title", "link", "price", "dates", "destination", "scraped_at"}

(***************************************************************************)
(* Claims about the fixer scripts                                          *)
(***************************************************************************)

\* C18: in both fixer scripts the backup holds the offers exactly as
\* loaded, it is written before any offer is modified and before
\* aratur.json is overwritten, and when no offers are loaded (missing file
\* or empty list) neither file is written.
C18_BackupBeforeChange ==
    /\ backup_json.exists => backup_json.offers = fx_loaded
    /\ fx_offers # fx_loaded => backup_json.exists
    /\ fx_writes \in {<<>>, <<"backup">>, <<"backup", "aratur.json">>}
    /\ (MainReturned /\ fx_loaded = <<>>) =>
          /\ fx_writes = <<>>
          /\ ~backup_json.exists
          /\ aratur_json.offers = <<>>

\* A run that modified an offer and overwrote aratur.json.
C18_Witness ==
    /\ MainReturned
    /\ fx_offers # fx_loaded
    /\ fx_writes = <<"backup", "aratur.json">>
    /\ aratur_json.offers # backup_json.offers

\* C18, the other case: a run that found no aratur.json.
C18_WitnessNothingLoaded ==
    /\ MainReturned
    /\ ~aratur_json.exists
    /\ fx_writes = <<>>

FetchedFields == {"price", "dates", "destination"}

\* C19: fetch_and_fix_offer never loses data: a field among price, dates
\* and destination that was non-empty before the call is non-empty after
\* it, for every offer and every fetched page.
C19_NoFieldLost ==
    \A k \in 1..Len(fx_log) :
        fx_log[k].outcome = "updated" =>
            \A field \in FetchedFields :
                Get(fx_loaded[k], field, "") # "" => Get(fx_offers[k], field, "") # ""

\* dates, destination and price are all non-empty after stripping
AllFieldsPresent(offer) ==
    \A field \in FetchedFields :
        /\ field \in DOMAIN offer
        /\ Strip(offer[field]) # ""

C21_FixerAnalyzerAgree ==
    df_pc \in {"analyzed", "fixed_again"} =>
        \A k \in 1..Len(df_offers) :
            df_fixed[k] # df_offers[k] => k \notin df_issues.inconsistent_ranges

\* C23: fix_date_inconsistencies is idempotent: a second run on its own
\* result changes no offer and returns 0.
C23_DateFixIdempotent ==
    df_pc = "fixed_again" => (df_again = df_fixed /\ df_again_count = 0)

\* A second run after a first run that corrected a range written without
\* leading zeros.
C23_Witness ==
    /\ df_pc = "fixed_again"
    /\ df_fixed_count > 0
    /\ \E k \in 1..Len(df_offers) :
          /\ df_offers[k].dates = "1.06.2026 - 3.06.2026"
          /\ df_fixed[k].dates # df_offers[k].dates

(***************************************************************************)
(* Claims about fix_aratur_issues.fix_invalid_destinations                 *)
(***************************************************************************)

\* C22: fix_invalid_destinations clears the destination of exactly the
\* offers analyze_offer_destinations lists under invalid_destinations, so
\* a destination the analyzer classifies as valid is never cleared.
C22_ClearsExactlyInvalid ==
    ds_pc = "fixed" =>
        {k \in 1..Len(ds_offers) : ds_fixed[k] # ds_offers[k]} = ds_issues.invalid_destinations

(***************************************************************************)
(* Claims about date-range building                                        *)
(***************************************************************************)

\* The days of the valid dates among the found texts.
ValidFoundDays ==
    {Strptime(rg_found[k]) : k \in {j \in 1..Len(rg_found) : ~StrptimeRaises(rg_found[j])}}

\* The range from the earliest to the latest valid found date.
EarliestToLatest ==
    RangeText(CHOOSE d \in ValidFoundDays : \A e \in ValidFoundDays : d <= e,
              CHOOSE d \in ValidFoundDays : \A e \in ValidFoundDays : d >= e)

\* The emitted string is a range "start - end".
EmittedIsRange ==
    rg_emitted # "" /\ rg_emitted \notin FoundTexts /\ rg_emitted \notin Range(DateText)

\* C24: when two or more valid DD.MM.YYYY dates are found, the emitted
\* range runs from the chronologically earliest to the chronologically
\* latest found date, whatever the order of the dates in the text.
C24_RangeEarliestToLatest ==
    (rg_pc = "built" /\ ~rg_raised /\ EmittedIsRange
        /\ Cardinality({k \in 1..Len(rg_found) : ~StrptimeRaises(rg_found[k])}) >= 2)
    => rg_emitted = EarliestToLatest

\* The same when every found text is a valid date (not the statement of
\* C24, which asks for two valid dates only).
RangeSortedWhenAllValid ==
    (rg_pc = "built" /\ Len(rg_found) >= 2 /\ ~AnyRaises(rg_found))
    => /\ ~rg_raised
       /\ EmittedIsRange => rg_emitted = EarliestToLatest
       /\ ~EmittedIsRange => Cardinality(ValidFoundDays) = 1

=============================================================================
